---- MODULE Spec2Model ----
(***************************************************************************)
(* Bank-statement converter backend: the upload pipeline, the scanned-     *)
(* document detector and the statement parsers of PDFParser / CSVParser.   *)
(*                                                                         *)
(* Text representation.  A text is a sequence of lines (text.split("\n")). *)
(* A line is a record of the tokens the parsers' regular expressions look  *)
(* at, in the order they stand on the line:                                *)
(*     date  text  nums                                                    *)
(*   date : the date token at the start of the line                        *)
(*          "none"   no date                                               *)
(*          "slash"  01/12/2024                                            *)
(*          "dmon"   08 SEP                                                *)
(*          "ord"    16th Sep                                              *)
(*          "dmony"  01 Aug 25                                             *)
(*   text : the words after the date, one of the strings of TextInfo       *)
(*   nums : the decimal tokens that end the line, in pence (45.57 = 4557), *)
(*          each printed with 1..3 integer digits and two decimals, a      *)
(*          negative one with a leading "-"                                *)
(*   glue : TRUE when the first decimal token follows the text without a   *)
(*          space ("...05/02/2025313.41")                                  *)
(* A raw line (text = "raw") stands for lead spaces, then a run of alnum   *)
(* letters, then a run of other non-blank punctuation, then trail spaces.  *)
(***************************************************************************)
EXTENDS Integers, Sequences, FiniteSets, TLC

\* ------------------------------------------------------------------ bounds
MaxBody == 3
MaxPages == 3

\* ------------------------------------------------------------ line tokens
Ln(d, t, n) == [date |-> d, text |-> t, nums |-> n, glue |-> FALSE]
LnGlued(d, t, n) == [date |-> d, text |-> t, nums |-> n, glue |-> TRUE]
RawLine(lead, alnum, other, trail) ==
    [date |-> "none", text |-> "raw", nums |-> <<>>, glue |-> FALSE,
     lead |-> lead, alnum |-> alnum, other |-> other, trail |-> trail]
BlankLine == Ln("none", "", <<>>)

\* The concrete string of every text kind, with its length and the number
\* of its [a-zA-Z0-9] characters.
TextInfo ==
    [ empty      |-> [len |-> 0, alnum |-> 0],  \* ""
      plain      |-> [len |-> 12, alnum |-> 11],  \* "TESCO STORES"
      filler     |-> [len |-> 75, alnum |-> 61],  \* "Thank you for banking with us. Please keep this statement for your records."
      stmt       |-> [len |-> 20, alnum |-> 18],  \* "Statement of account"
      nw_issuer  |-> [len |-> 29, alnum |-> 26],  \* "National Westminster Bank Plc"
      nw_period  |-> [len |-> 49, alnum |-> 40],  \* "NatWest Period Covered 01 AUG 2024 to 31 AUG 2024"
      nw_skip    |-> [len |-> 18, alnum |-> 14],  \* "Sort Code 60-02-13"
      nw_bf      |-> [len |-> 15, alnum |-> 14],  \* "BROUGHT FORWARD"
      nw_kw      |-> [len |-> 24, alnum |-> 21],  \* "Direct Debit BLACK HORSE"
      nw_credit  |-> [len |-> 21, alnum |-> 19],  \* "Automated Credit ACME"
      nw_card    |-> [len |-> 16, alnum |-> 15],  \* "Card Transaction"
      na_issuer  |-> [len |-> 27, alnum |-> 25],  \* "Nationwide Building Society"
      na_stmt    |-> [len |-> 48, alnum |-> 42],  \* "Nationwide FlexDirect Statement 05 March 2024 no"
      na_skip    |-> [len |-> 18, alnum |-> 14],  \* "Sort code 07-00-93"
      na_bf      |-> [len |-> 42, alnum |-> 35],  \* "Balance from statement 47 dated 05/02/2025"
      na_credit  |-> [len |-> 16, alnum |-> 14],  \* "Bank credit ACME"
      sa_issuer  |-> [len |-> 16, alnum |-> 14],  \* "Santander UK plc"
      sa_summary |-> [len |-> 60, alnum |-> 50],  \* "Santander Your account summary for 16th Sep 2024 to 15th Oct"
      sa_skip    |-> [len |-> 18, alnum |-> 14],  \* "Sort Code 09-01-28"
      sa_bf      |-> [len |-> 47, alnum |-> 41],  \* "Balance brought forward from 15th Sep Statement"
      sa_bfprev  |-> [len |-> 47, alnum |-> 42],  \* "Balance brought forward from previous statement"
      sa_cf      |-> [len |-> 23, alnum |-> 21],  \* "Balance carried forward"
      sa_credit  |-> [len |-> 28, alnum |-> 25],  \* "FASTER PAYMENTS RECEIPT ACME"
      sa_range   |-> [len |-> 21, alnum |-> 17],  \* "2025 to 15th Oct 2025"
      mz_issuer  |-> [len |-> 18, alnum |-> 16],  \* "Monzo Bank Limited"
      mz_header  |-> [len |-> 43, alnum |-> 34],  \* "Date Description (GBP) Amount (GBP) Balance"
      mz_footer  |-> [len |-> 19, alnum |-> 14],  \* "Sort code: 04-00-04"
      mz_none    |-> [len |-> 45, alnum |-> 39],  \* "There were no transactions during this period"
      ge_header  |-> [len |-> 31, alnum |-> 28],  \* "Date Description Amount Balance"
      ge_debit   |-> [len |-> 18, alnum |-> 16],  \* "TESCO STORES debit"
      ge_credit  |-> [len |-> 18, alnum |-> 16],  \* "SALARY ACME credit"
      le_header  |-> [len |-> 17, alnum |-> 16],  \* "Your Transactions"
      le_skip    |-> [len |-> 11, alnum |-> 8],  \* "Page 1 of 2"
      le_blank   |-> [len |-> 18, alnum |-> 16],  \* "TESCO STORES blank"
      co_date    |-> [len |-> 4, alnum |-> 4],  \* "Date"
      co_desc    |-> [len |-> 11, alnum |-> 11],  \* "Description"
      co_type    |-> [len |-> 4, alnum |-> 4],  \* "Type"
      co_tfr     |-> [len |-> 3, alnum |-> 3],  \* "TFR"
      co_in      |-> [len |-> 8, alnum |-> 7],  \* "Money In"
      co_out     |-> [len |-> 9, alnum |-> 8],  \* "Money Out"
      co_bal     |-> [len |-> 7, alnum |-> 7],  \* "Balance"
      co_blank   |-> [len |-> 5, alnum |-> 5] ]  \* "blank"

TextKey(t) == IF t = "" THEN "empty" ELSE t

Abs(n) == IF n < 0 THEN -n ELSE n

DateLen(d) ==
    CASE d = "none" -> 0 [] d = "slash" -> 10 [] d = "dmon" -> 6
      [] d = "ord" -> 8 [] d = "dmony" -> 9
DateAlnum(d) ==
    CASE d = "none" -> 0 [] d = "slash" -> 8 [] d = "dmon" -> 5
      [] d = "ord" -> 7 [] d = "dmony" -> 7

\* digits of a decimal token "d.dd" .. "ddd.dd"
NumDigits(n) == (IF Abs(n) < 1000 THEN 1 ELSE IF Abs(n) < 10000 THEN 2 ELSE 3) + 2
NumLen(n) == NumDigits(n) + 1 + (IF n < 0 THEN 1 ELSE 0)

RECURSIVE Sum(_)
Sum(s) == IF s = <<>> THEN 0 ELSE Head(s) + Sum(Tail(s))

\* number of separating blanks between the tokens that are present
Gaps(l) ==
    LET parts == (IF l.date = "none" THEN 0 ELSE 1) + (IF l.text = "" THEN 0 ELSE 1)
                 + Len(l.nums)
        g == IF parts = 0 THEN 0 ELSE parts - 1
    IN IF l.glue /\ l.nums # <<>> /\ g > 0 THEN g - 1 ELSE g

LineLen(l) ==
    IF l.text = "raw" THEN l.lead + l.alnum + l.other + l.trail
    ELSE DateLen(l.date) + TextInfo[TextKey(l.text)].len + Sum([k \in 1..Len(l.nums) |-> NumLen(l.nums[k])]) + Gaps(l)
LineAlnum(l) ==
    IF l.text = "raw" THEN l.alnum
    ELSE DateAlnum(l.date) + TextInfo[TextKey(l.text)].alnum + Sum([k \in 1..Len(l.nums) |-> NumDigits(l.nums[k])])
\* white space at the left / right end of the line
LineLead(l) == IF l.text = "raw" THEN (IF l.alnum + l.other = 0 THEN l.lead + l.trail ELSE l.lead) ELSE 0
LineTrail(l) == IF l.text = "raw" THEN (IF l.alnum + l.other = 0 THEN l.lead + l.trail ELSE l.trail) ELSE 0
LineIsSpace(l) == LineLen(l) = LineLead(l)

\* text.length of lines.join("\n")
TextLength(lines) ==
    IF lines = <<>> THEN 0 ELSE Sum([k \in 1..Len(lines) |-> LineLen(lines[k])]) + Len(lines) - 1
\* (text.match(/[a-zA-Z0-9]/g) || []).length
AlnumCount(lines) == Sum([k \in 1..Len(lines) |-> LineAlnum(lines[k])])

RECURSIVE LeadSpace(_)
LeadSpace(lines) ==
    IF lines = <<>> THEN 0
    ELSE IF LineIsSpace(Head(lines))
         THEN LineLen(Head(lines)) + (IF Len(lines) > 1 THEN 1 ELSE 0) + LeadSpace(Tail(lines))
         ELSE LineLead(Head(lines))
Reverse(s) == [k \in 1..Len(s) |-> s[Len(s) + 1 - k]]
RECURSIVE TrailSpace(_)
TrailSpace(rlines) ==
    IF rlines = <<>> THEN 0
    ELSE IF LineIsSpace(Head(rlines))
         THEN LineLen(Head(rlines)) + (IF Len(rlines) > 1 THEN 1 ELSE 0) + TrailSpace(Tail(rlines))
         ELSE LineTrail(Head(rlines))
\* text.trim().length
TrimLength(lines) ==
    IF LeadSpace(lines) = TextLength(lines) THEN 0
    ELSE TextLength(lines) - LeadSpace(lines) - TrailSpace(Reverse(lines))

\* ------------------------------------------------- scanned-PDF detection
avgCharsPerPage == 1000

\* a detector that only looks at the amount of text
isLikelyScannedPDFShortOnly(text, numPages) ==
    10 * TrimLength(text) < numPages * avgCharsPerPage * 2

\* isLikelyScannedPDF.  textLength < expectedTextLength * 0.2 is compared
\* exactly (the double product n*1000*0.2 rounds to 200n for every page
\* count); a ratio 0/0 is NaN and NaN < 0.5 is false.
isLikelyScannedPDF(text, numPages) ==
    LET textLength == TrimLength(text)
        expectedTextLength == numPages * avgCharsPerPage
        alphanumericCount == AlnumCount(text)
    IN IF 10 * textLength < expectedTextLength * 2 THEN TRUE
       ELSE IF textLength # 0 /\ 10 * alphanumericCount < textLength * 5 THEN TRUE
       ELSE FALSE

\* ------------------------------------------------------- scanning helpers
\* lines[i] of the code (0-based)
At(lines, i) == lines[i + 1]

\* the concrete string of a date token
DateStr(d) ==
    CASE d = "slash" -> "01/12/2024" [] d = "dmon" -> "08 SEP"
      [] d = "ord" -> "16th Sep" [] d = "dmony" -> "01 Aug 25" [] OTHER -> ""

\* !line, for line = lines[i].trim()
IsEmptyLine(l) == LineIsSpace(l)

Undefined == <<>>
Some(v) == <<v>>

Txn(date, description, amount, balance, type, anchor) ==
    [date |-> date, description |-> description, amount |-> amount,
     balance |-> balance, type |-> type, anchor |-> anchor]


\* a variant of push that puts the new transaction first
pushFront(transactions, t) == <<t>> \o transactions
\* transactions.push(t)
push(transactions, t) == Append(transactions, t)
\* the words of a line (its date token counts as a word of a continuation line)
Words(l) ==
    (IF l.date = "none" THEN <<>> ELSE <<DateStr(l.date)>>)
    \o (IF l.text = "" THEN <<>> ELSE <<l.text>>)
TextWords(l) == IF l.text = "" THEN <<>> ELSE <<l.text>>

\* parseFloat of the digits of a decimal token: the sign is not part of the
\* match of a pattern that starts with \d
AbsNums(l) == [k \in 1..Len(l.nums) |-> Abs(l.nums[k])]

\* first j' >= j with j' = lines.length or Stop(lines[j'])
ScanTo(lines, j, Stop(_)) ==
    LET S == {k \in j..(Len(lines) - 1) : Stop(At(lines, k))}
    IN IF S = {} THEN Len(lines) ELSE CHOOSE k \in S : \A m \in S : k <= m

\* decimal tokens of lines[a..b-1], in order
RECURSIVE AggNums(_, _, _)
AggNums(lines, a, b) ==
    IF a >= b THEN <<>> ELSE AbsNums(At(lines, a)) \o AggNums(lines, a + 1, b)

\* words of fullText before its first decimal token: head are the words of
\* the anchor line after its date, the continuation lines a..b-1 follow
RECURSIVE ContWordsBeforeNum(_, _, _)
ContWordsBeforeNum(lines, a, b) ==
    IF a >= b THEN <<>>
    ELSE IF At(lines, a).nums # <<>> THEN Words(At(lines, a))
    ELSE Words(At(lines, a)) \o ContWordsBeforeNum(lines, a + 1, b)
DescBeforeNum(head, hasNum, lines, a, b) ==
    IF hasNum THEN head ELSE head \o ContWordsBeforeNum(lines, a, b)

HasWordIn(desc, S) == \E k \in 1..Len(desc) : desc[k] \in S

\* -------------------------------------------------------------- NatWest
NatWestSkipText == {"nw_issuer", "nw_period", "nw_skip", "sa_skip"}
NatWestBFText == {"nw_bf"}
NatWestStopText == {"nw_issuer"}
NatWestKeywordText == {"nw_card", "nw_credit", "nw_kw"}
NatWestCreditText == {"nw_credit"}
NatWestYearText == {"nw_period"}

FallbackYear == "2025"

\* the default year, whatever the period header says
NatWestYearDefault(lines) == FallbackYear
\* text.match(/Period Covered.*?(\d{4})/i)
NatWestYear(lines) ==
    IF \E k \in 1..Len(lines) : lines[k].text \in NatWestYearText THEN "2024" ELSE FallbackYear

\* natWestDatePattern /^(\d{1,2}\s+(?:JAN|..|DEC))\s+(.+)/i : "DD MON", blank, rest
NatWestDateMatch(l) ==
    \/ l.date = "dmon" /\ (l.text # "" \/ l.nums # <<>>)
    \/ l.date = "dmony"
\* dateMatch[2] in words: "01 Aug 25 X" leaves "25 X"
NatWestRest(l) == (IF l.date = "dmony" THEN <<"25">> ELSE <<>>) \o TextWords(l)
NatWestDay(l) == IF l.date = "dmony" THEN "01 Aug" ELSE "08 SEP"

NatWestContStop(l) ==
    \/ IsEmptyLine(l)
    \/ NatWestDateMatch(l)
    \/ l.text \in NatWestStopText
    \/ (l.date = "none" /\ l.text \in NatWestKeywordText)

\* the three-column branch with the withdrawn column tested first
NatWestAmountWithdrawnFirst(amounts, desc) ==
    IF Len(amounts) = 2
    THEN [amount |-> amounts[1],
          type |-> IF HasWordIn(desc, NatWestCreditText) THEN "credit" ELSE "debit"]
    ELSE IF Len(amounts) = 3
    THEN IF amounts[2] > 0 THEN [amount |-> amounts[2], type |-> "debit"]
         ELSE IF amounts[1] > 0 THEN [amount |-> amounts[1], type |-> "credit"]
         ELSE [amount |-> 0, type |-> "debit"]
    ELSE [amount |-> 0, type |-> "debit"]
\* amount and type from the decimal tokens of one logical transaction
NatWestAmount(amounts, desc) ==
    IF Len(amounts) = 2
    THEN [amount |-> amounts[1],
          type |-> IF HasWordIn(desc, NatWestCreditText) THEN "credit" ELSE "debit"]
    ELSE IF Len(amounts) = 3
    THEN IF amounts[1] > 0 THEN [amount |-> amounts[1], type |-> "credit"]
         ELSE IF amounts[2] > 0 THEN [amount |-> amounts[2], type |-> "debit"]
         ELSE [amount |-> 0, type |-> "debit"]
    ELSE [amount |-> 0, type |-> "debit"]

\* one iteration of the for loop of extractNatWestTransactions
NatWestStep(lines, year, s) ==
    LET i == s.i
        line == At(lines, i)
        j == ScanTo(lines, i + 1, NatWestContStop)
        amounts == AggNums(lines, i, j)
    IN
    IF IsEmptyLine(line) \/ line.text \in NatWestSkipText
    THEN [s EXCEPT !.i = i + 1]
    ELSE IF line.text \in NatWestBFText
    THEN IF line.date \in {"dmon", "dmony"} /\ line.nums # <<>>
         THEN LET currentDate == <<NatWestDay(line), year>>
              IN [s EXCEPT !.i = i + 1, !.cur = currentDate,
                     !.tx = push(@, Txn(currentDate, <<"BROUGHT FORWARD">>, 0,
                                          Some(Abs(line.nums[1])), "brought_forward", i))]
         ELSE [s EXCEPT !.i = i + 1]
    ELSE IF NatWestDateMatch(line)
    THEN LET fullDate == <<NatWestDay(line), year>>
             desc == DescBeforeNum(NatWestRest(line), line.nums # <<>>, lines, i + 1, j)
             at == NatWestAmount(amounts, desc)
         IN IF Len(amounts) = 1
            THEN [s EXCEPT !.i = i + 1, !.cur = fullDate]
            ELSE IF Len(amounts) >= 1 /\ at.amount > 0 /\ desc # <<>>
            THEN [s EXCEPT !.i = j, !.cur = fullDate,
                     !.tx = push(@, Txn(fullDate, desc, at.amount,
                                          Some(amounts[Len(amounts)]), at.type, i))]
            ELSE [s EXCEPT !.i = j, !.cur = fullDate]
    ELSE IF s.cur # <<>>
    THEN LET desc == DescBeforeNum(Words(line), line.nums # <<>>, lines, i + 1, j)
             at == NatWestAmount(amounts, desc)
         IN IF Len(amounts) >= 2 /\ at.amount > 0 /\ desc # <<>>
            THEN [s EXCEPT !.i = j,
                     !.tx = push(@, Txn(s.cur, desc, at.amount,
                                          Some(amounts[Len(amounts)]), at.type, i))]
            ELSE [s EXCEPT !.i = j]
    ELSE [s EXCEPT !.i = i + 1]

\* ----------------------------------------------------------- Nationwide
NationwideSkipText == {"co_bal", "mz_footer", "na_issuer", "na_skip", "na_stmt"}
NationwideBFText == {"na_bf"}
NationwideCreditText == {"na_credit", "nw_credit"}
NationwideYearText == {"na_stmt"}

\* text.match(/Statement\s+\d{1,2}\s+\w+\s+(\d{4})/i)
NationwideYear(lines) ==
    IF \E k \in 1..Len(lines) : lines[k].text \in NationwideYearText THEN "2024" ELSE FallbackYear

monthNames == <<"Jan", "Feb", "Mar", "Apr", "May", "Jun",
                "Jul", "Aug", "Sep", "Oct", "Nov", "Dec">>

\* nationwideDatePattern /^(\d{1,2}\s*(?:Jan|..|Dec))\s*(.+)/i
NationwideDateMatch(l) ==
    \/ l.date = "dmon" /\ (l.text # "" \/ l.nums # <<>>)
    \/ l.date = "dmony"
NationwideDay(l) == IF l.date = "dmony" THEN "01 Aug" ELSE "08 SEP"
\* description.match(/[\d,]+\.?\d{0,2}/g): every digit group of dateMatch[2]
NationwideNumbers(l) == (IF l.date = "dmony" THEN <<2500>> ELSE <<>>) \o AbsNums(l)
\* description.substring(0, firstNumberIndex).trim()
NationwideDesc(l) == IF l.date = "dmony" THEN <<>> ELSE TextWords(l)

\* /dated\s*\d{2}\/\d{2}\/\d{4}([\d,]+\.?\d{0,2})/i : the balance has to
\* follow the year of "dated 05/02/2025" with nothing in between
NationwideAfterDateMatch(l) == l.glue /\ l.nums # <<>> /\ l.nums[1] >= 0

NationwideAmount(amounts, desc) ==
    IF Len(amounts) = 2
    THEN [amount |-> amounts[1], balance |-> amounts[2],
          type |-> IF HasWordIn(desc, NationwideCreditText) THEN "credit" ELSE "debit"]
    ELSE IF Len(amounts) = 3
    THEN IF amounts[2] > 0 THEN [amount |-> amounts[2], balance |-> amounts[3], type |-> "credit"]
         ELSE IF amounts[1] > 0 THEN [amount |-> amounts[1], balance |-> amounts[3], type |-> "debit"]
         ELSE [amount |-> 0, balance |-> amounts[3], type |-> "debit"]
    ELSE [amount |-> 0, balance |-> 0, type |-> "debit"]

\* one iteration of the for loop of extractNationwideTransactions
NationwideStep(lines, year, s) ==
    LET i == s.i
        line == At(lines, i)
    IN
    IF IsEmptyLine(line) \/ line.text \in NationwideSkipText
    THEN [s EXCEPT !.i = i + 1]
    ELSE IF line.text \in NationwideBFText
    THEN IF NationwideAfterDateMatch(line)
         THEN LET currentDate == <<"05", monthNames[2], "2025">>
              IN [s EXCEPT !.i = i + 1, !.cur = currentDate,
                     !.tx = push(@, Txn(currentDate, <<"BROUGHT FORWARD">>, 0,
                                          Some(line.nums[1]), "brought_forward", i))]
         ELSE [s EXCEPT !.i = i + 1]
    ELSE IF NationwideDateMatch(line)
    THEN LET currentDate == <<NationwideDay(line), year>>
             amounts == NationwideNumbers(line)
             desc == NationwideDesc(line)
             at == NationwideAmount(amounts, desc)
         IN IF Len(amounts) >= 2 /\ at.amount > 0 /\ desc # <<>>
            THEN [s EXCEPT !.i = i + 1, !.cur = currentDate,
                     !.tx = push(@, Txn(currentDate, desc, at.amount,
                                          Some(at.balance), at.type, i))]
            ELSE [s EXCEPT !.i = i + 1, !.cur = currentDate]
    ELSE [s EXCEPT !.i = i + 1]

\* ------------------------------------------------------------ Santander
SantanderSkipText == {"nw_skip", "sa_issuer", "sa_skip", "sa_summary"}
SantanderBFText == {"sa_bf", "sa_bfprev"}
SantanderCFText == {"sa_cf"}
SantanderStopText == {"sa_cf"}
SantanderFromDateText == {"sa_bf"}
SantanderCreditText == {"ge_credit", "na_credit", "nw_credit", "sa_credit"}
SantanderYearText == {"sa_summary"}
\* text kinds that hold " to " and the year 2025
SantanderRange2025Text == {"sa_range"}
\* text kinds with a digit, and those that start with one
DigitText == {"le_skip", "mz_footer", "na_bf", "na_skip", "na_stmt", "nw_period",
              "nw_skip", "sa_bf", "sa_range", "sa_skip", "sa_summary"}
DigitFirstText == {"sa_range"}

\* text.match(/Your account summary for.*?(\d{4})/i)
SantanderYear(lines) ==
    IF \E k \in 1..Len(lines) : lines[k].text \in SantanderYearText THEN "2024" ELSE FallbackYear

\* santanderDatePattern /^(\d{1,2}(?:st|nd|rd|th)\s*(?:Jan|..|Dec))(.+)/i
SantanderDateMatch(l) == l.date = "ord" /\ (l.text # "" \/ l.nums # <<>>)

SantanderContStop(l) ==
    \/ IsEmptyLine(l)
    \/ SantanderDateMatch(l)
    \/ l.text \in SantanderStopText

\* fullText.substring(0, firstNumberIndex): the words before the first digit
\* of fullText (firstNumberMatch is /[\d,]+\.?\d{0,2}/); a word cut at its
\* first digit stays in the description under its own name
RECURSIVE SantanderWordsBeforeDigit(_, _, _)
SantanderWordsBeforeDigit(lines, a, b) ==
    IF a >= b THEN <<>>
    ELSE LET l == At(lines, a)
         IN IF l.date # "none" THEN <<>>
            ELSE IF l.text \in DigitFirstText THEN <<>>
            ELSE IF l.text \in DigitText THEN <<l.text>>
            ELSE IF l.nums # <<>> THEN TextWords(l)
            ELSE TextWords(l) \o SantanderWordsBeforeDigit(lines, a + 1, b)
SantanderDesc(lines, i, j) ==
    LET l == At(lines, i)
    IN IF l.text \in DigitFirstText THEN <<>>
       ELSE IF l.text \in DigitText THEN <<l.text>>
       ELSE IF l.nums # <<>> THEN TextWords(l)
       ELSE TextWords(l) \o SantanderWordsBeforeDigit(lines, i + 1, j)

SantanderAmount(amounts, allNumbers, desc) ==
    IF Len(amounts) = 1
    THEN \* raw extraction pass: the last two of allNumbers
         IF Len(allNumbers) >= 2
         THEN [amount |-> allNumbers[Len(allNumbers) - 1], balance |-> allNumbers[Len(allNumbers)],
               type |-> IF HasWordIn(desc, SantanderCreditText) THEN "credit" ELSE "debit",
               skip |-> FALSE]
         ELSE [amount |-> 0, balance |-> 0, type |-> "debit", skip |-> TRUE]
    ELSE IF Len(amounts) = 2
    THEN [amount |-> amounts[1], balance |-> amounts[2],
          type |-> IF HasWordIn(desc, SantanderCreditText) THEN "credit" ELSE "debit",
          skip |-> FALSE]
    ELSE IF Len(amounts) = 3
    THEN IF amounts[1] > 0
         THEN [amount |-> amounts[1], balance |-> amounts[3], type |-> "credit", skip |-> FALSE]
         ELSE IF amounts[2] > 0
         THEN [amount |-> amounts[2], balance |-> amounts[3], type |-> "debit", skip |-> FALSE]
         ELSE [amount |-> 0, balance |-> amounts[3], type |-> "debit", skip |-> FALSE]
    ELSE [amount |-> 0, balance |-> 0, type |-> "debit", skip |-> FALSE]

\* one iteration of the for loop of extractSantanderTransactions
SantanderStep(lines, year, s) ==
    LET i == s.i
        line == At(lines, i)
        j == ScanTo(lines, i + 1, SantanderContStop)
        \* cleanedText.match(/\d{1,4}\.\d{2}/g) and, for the raw pass,
        \* cleanForExtraction.match(/\d+\.\d{2}/g): the same decimal tokens
        amounts == AggNums(lines, i, j)
        allNumbers == AggNums(lines, i, j)
    IN
    IF IsEmptyLine(line) \/ line.text \in SantanderSkipText
    THEN [s EXCEPT !.i = i + 1]
    ELSE IF line.text \in SantanderBFText
    THEN LET balanceDate ==
                 IF line.date = "ord" THEN <<"16 Sep", year>>
                 ELSE IF line.text \in SantanderFromDateText THEN <<"15 Sep", year>>
                 ELSE <<year>>
         IN IF line.nums # <<>>
            THEN [s EXCEPT !.i = i + 1,
                     !.tx = push(@, Txn(balanceDate, <<"BROUGHT FORWARD">>, 0,
                                          Some(Abs(line.nums[Len(line.nums)])),
                                          "brought_forward", i))]
            ELSE [s EXCEPT !.i = i + 1]
    ELSE IF line.text \in SantanderCFText
    THEN [s EXCEPT !.i = i + 1]
    ELSE IF SantanderDateMatch(line)
    THEN IF line.text \in SantanderRange2025Text /\ year = "2025"
         THEN [s EXCEPT !.i = i + 1]
         ELSE LET currentDate == <<"16 Sep", year>>
                  desc == SantanderDesc(lines, i, j)
                  at == SantanderAmount(amounts, allNumbers, desc)
              IN IF Len(amounts) >= 1 /\ at.skip
                 THEN [s EXCEPT !.i = i + 1, !.cur = currentDate]
                 ELSE IF Len(amounts) >= 1 /\ at.amount > 0 /\ desc # <<>>
                 THEN [s EXCEPT !.i = j, !.cur = currentDate,
                          !.tx = push(@, Txn(currentDate, desc, at.amount,
                                               Some(at.balance), at.type, i))]
                 ELSE [s EXCEPT !.i = j, !.cur = currentDate]
    ELSE [s EXCEPT !.i = i + 1]

\* ---------------------------------------------------------------- Monzo
MonzoHeaderText == {"ge_header", "mz_header"}
MonzoFooterText == {"mz_footer", "mz_issuer"}

\* line.match(/^(\d{2}\/\d{2}\/\d{4})(.*)$/)
MonzoDateMatch(l) == l.date = "slash"
MonzoContStop(l) == IsEmptyLine(l) \/ l.date = "slash"

\* restOfLine.match(/[-+]?\d+\.\d{2}/g): the decimal tokens with their sign
RECURSIVE AggSigned(_, _, _)
AggSigned(lines, a, b) ==
    IF a >= b THEN <<>> ELSE At(lines, a).nums \o AggSigned(lines, a + 1, b)

\* the words and decimal tokens of restOfLine in order; a decimal token is
\* the word "#"
TokenWords(l, withDate) ==
    (IF withDate THEN Words(l) ELSE TextWords(l)) \o [k \in 1..Len(l.nums) |-> "#"]
RECURSIVE AggTokens(_, _, _)
AggTokens(lines, a, b) ==
    IF a >= b THEN <<>> ELSE TokenWords(At(lines, a), TRUE) \o AggTokens(lines, a + 1, b)

\* tokens that stand before the n-th decimal token of toks
RECURSIVE BeforeNthNum(_, _)
BeforeNthNum(toks, n) ==
    IF toks = <<>> THEN <<>>
    ELSE IF Head(toks) = "#"
         THEN IF n = 1 THEN <<>> ELSE <<"#">> \o BeforeNthNum(Tail(toks), n - 1)
         ELSE <<Head(toks)>> \o BeforeNthNum(Tail(toks), n)

\* the string of decimal token a occurs in the string of decimal token b
\* ("5.00" in "25.00", "-5.00" only in "-5.00")
Pow10Digits(n) == IF n < 1000 THEN 1000 ELSE IF n < 10000 THEN 10000 ELSE 100000
NumStrOccursIn(a, b) ==
    IF a < 0 THEN a = b
    ELSE Abs(b) % Pow10Digits(a) = a /\ Abs(b) >= a

\* restOfLine.substring(0, restOfLine.lastIndexOf(amountStr)).trim(), as words
MonzoDesc(toks, nums) ==
    LET n == Len(nums)
        a == nums[n - 1]
        b == nums[n]
    IN IF NumStrOccursIn(a, b)
       THEN BeforeNthNum(toks, n) \o (IF a = b THEN <<>> ELSE <<"#">>)
       ELSE BeforeNthNum(toks, n - 1)

\* one iteration of the for loop of extractMonzoTransactions
MonzoStep(lines, s) ==
    LET i == s.i
        line == At(lines, i)
        j == ScanTo(lines, i + 1, MonzoContStop)
        numberMatches == AggSigned(lines, i, j)
        toks == TokenWords(line, FALSE) \o AggTokens(lines, i + 1, j)
    IN
    IF line.text \in MonzoHeaderText
    THEN [s EXCEPT !.i = i + 1, !.sec = TRUE]
    ELSE IF s.sec /\ line.text \in MonzoFooterText
    THEN [s EXCEPT !.i = Len(lines), !.sec = FALSE]
    ELSE IF ~s.sec \/ IsEmptyLine(line)
    THEN [s EXCEPT !.i = i + 1]
    ELSE IF MonzoDateMatch(line)
    THEN IF Len(numberMatches) >= 2
         THEN LET amountStr == numberMatches[Len(numberMatches) - 1]
                  balanceStr == numberMatches[Len(numberMatches)]
                  amount == Abs(amountStr)
                  type == IF amountStr < 0 THEN "debit" ELSE "credit"
                  description == MonzoDesc(toks, numberMatches)
              IN IF description # <<>> /\ amount >= 0
                 THEN [s EXCEPT !.i = j,
                          !.tx = push(@, Txn(<<DateStr("slash")>>, description, amount,
                                               Some(balanceStr), type, i))]
                 ELSE [s EXCEPT !.i = j]
         ELSE [s EXCEPT !.i = i + 1]
    ELSE [s EXCEPT !.i = i + 1]

\* ------------------------------------------------- generic, strict tier
GenericHeaderText == {"ge_header", "mz_header"}
GenericDebitText == {"ge_debit", "nw_kw"}
GenericCreditText == {"ge_credit", "na_credit", "nw_credit"}

TrimmedLen(l) == LineLen(l) - (IF LineIsSpace(l) THEN LineLen(l) ELSE LineLead(l) + LineTrail(l))

\* the first of datePatterns that matches is /\b(\d{1,2}[\/\-]\d{1,2}[\/\-]\d{2,4})\b/
GenericDateMatch(l) == l.date = "slash"

\* amountPattern /(?:[-+]?\s*)?(?:\$|USD)?\s*([\d,]+\.?\d{0,2})/g runs over the
\* whole line: the digit groups of the date 01/12/2024 are its first matches
DateDigitGroups(d) == IF d = "slash" THEN <<100, 1200, 202400>> ELSE <<>>
GenericAmounts(l) == DateDigitGroups(l.date) \o l.nums

\* first parsed amount that is > 0, else 0
RECURSIVE FirstPositive(_)
FirstPositive(amounts) ==
    IF amounts = <<>> THEN 0
    ELSE IF Head(amounts) > 0 THEN Head(amounts) ELSE FirstPositive(Tail(amounts))

magnitudeThreshold == 100000

\* line.substring(dateIndex + dateMatch[0].length, firstAmountIndex): the first
\* amount is the day of the date at index 0, and substring swaps its
\* arguments, which leaves the date itself
GenericDescription(l) == <<DateStr(l.date)>>

\* one iteration of the for loop of the strict tier of extractTransactions
StrictStep(lines, s) ==
    LET i == s.i
        line == At(lines, i)
        amounts == GenericAmounts(line)
        amount == FirstPositive(amounts)
        hasDebit == line.text \in GenericDebitText
        hasCredit == line.text \in GenericCreditText
        hasMinus == \E k \in 1..Len(line.nums) : line.nums[k] < 0
        type == IF hasDebit \/ hasMinus THEN "debit"
                ELSE IF hasCredit THEN "credit"
                ELSE IF amount < magnitudeThreshold THEN "debit" ELSE "credit"
        last == amounts[Len(amounts)]
        balance == IF Len(amounts) > 1 /\ last # amount THEN Some(last) ELSE Undefined
    IN
    IF IsEmptyLine(line) \/ TrimmedLen(line) < 10
    THEN [s EXCEPT !.i = i + 1]
    ELSE IF line.text \in GenericHeaderText
    THEN [s EXCEPT !.i = i + 1]
    ELSE IF ~GenericDateMatch(line)
    THEN [s EXCEPT !.i = i + 1]
    ELSE IF amounts = <<>> \/ amount = 0
    THEN [s EXCEPT !.i = i + 1]
    ELSE [s EXCEPT !.i = i + 1,
             !.tx = push(@, Txn(<<DateStr(line.date)>>, GenericDescription(line),
                                  amount, balance, type, i))]

\* ------------------------------------------------ generic, lenient tier
LenientSectionText == {"ge_header", "le_header", "mz_header"}
LenientSkipText == {"le_skip", "mz_footer", "na_skip", "nw_skip", "sa_skip"}
LenientBlankText == {"co_blank", "le_blank"}
\* descriptions that are nothing but a transaction type code (TFR, DDR, ...)
LenientCodeText == {"co_tfr"}
EndsWithDateText == {"co_date"}
HasDescriptionText == {"co_desc", "ge_header", "mz_header"}
HasTypeText == {"co_type"}

sampleSize == 20
headerSkip == 5

\* first line that opens the transaction section, else 0
transactionSectionStart(lines) ==
    LET S == {k \in 0..(Len(lines) - 1) : At(lines, k).text \in LenientSectionText}
    IN IF S = {} THEN 0 ELSE CHOOSE k \in S : \A m \in S : k <= m

Min(a, b) == IF a < b THEN a ELSE b

\* sampleLines.includes('date\n') || .includes('date.') ||
\* (.includes('description') && .includes('type'))
isColumnarFormat(lines) ==
    LET start == transactionSectionStart(lines)
        end == Min(Len(lines), start + sampleSize)
        sample == start..(end - 1)
    IN \/ \E k \in sample : /\ k < end - 1
                            /\ At(lines, k).text \in EndsWithDateText
                            /\ At(lines, k).nums = <<>>
       \/ /\ \E k \in sample : At(lines, k).text \in HasDescriptionText
          /\ \E k \in sample : At(lines, k).text \in HasTypeText

\* /\b(\d{1,2}\s+(?:Jan|..|Dec)\s+\d{2,4}|\d{1,2}[\/\-]\d{1,2}[\/\-]\d{2,4})\b/i
LenientDateMatch(l) == l.date \in {"dmony", "slash"}

\* moneyIn / moneyOut / balance by position, then amount and type
LenientAmount(amounts, blank) ==
    LET moneyIn == IF Len(amounts) = 1 THEN (IF blank THEN 0 ELSE amounts[1]) ELSE amounts[1]
        moneyOut == IF Len(amounts) = 1 THEN (IF blank THEN amounts[1] ELSE 0)
                    ELSE IF Len(amounts) = 2 THEN 0 ELSE amounts[2]
        balance == IF Len(amounts) = 1 THEN 0
                   ELSE IF Len(amounts) = 2 THEN amounts[2] ELSE amounts[3]
    IN IF moneyIn > 0 /\ moneyOut = 0 THEN [amount |-> moneyIn, type |-> "credit", balance |-> balance]
       ELSE IF moneyOut > 0 /\ moneyIn = 0 THEN [amount |-> moneyOut, type |-> "debit", balance |-> balance]
       ELSE IF moneyIn > 0 THEN [amount |-> moneyIn, type |-> "credit", balance |-> balance]
       ELSE [amount |-> 0, type |-> "debit", balance |-> balance]

\* one iteration of the inline for loop of extractTransactionsLenient
LenientStep(lines, s) ==
    LET i == s.i
        line == At(lines, i)
        amountMatches == AbsNums(line)
        description == IF line.text = "" \/ line.text \in LenientCodeText
                       THEN <<"Transaction">> ELSE <<line.text>>
        at == LenientAmount(amountMatches, line.text \in LenientBlankText)
    IN
    IF IsEmptyLine(line) \/ line.text \in LenientSkipText
    THEN [s EXCEPT !.i = i + 1]
    ELSE IF ~LenientDateMatch(line)
    THEN [s EXCEPT !.i = i + 1]
    ELSE IF amountMatches = <<>>
    THEN [s EXCEPT !.i = i + 1]
    ELSE IF at.amount > 0
    THEN [s EXCEPT !.i = i + 1,
             !.tx = push(@, Txn(<<DateStr(line.date)>>, description, at.amount,
                                  IF at.balance > 0 THEN Some(at.balance) ELSE Undefined,
                                  at.type, i))]
    ELSE [s EXCEPT !.i = i + 1]

\* ------------------------------------------------ generic, columnar form
ColSkipHeaderText == {"co_bal", "co_in", "co_out", "ge_header", "mz_header",
                      "na_bf", "sa_bf", "sa_bfprev", "sa_cf"}
ColDateLabelText == {"co_date"}
ColDescLabelText == {"co_desc"}
ColTypeLabelText == {"co_type"}
ColInLabelText == {"co_in"}
ColOutLabelText == {"co_out"}
ColBalLabelText == {"co_bal", "ge_header", "mz_header", "na_bf", "sa_bf", "sa_bfprev", "sa_cf"}
ColBlankText == {"co_blank"}

lookahead == 20
recordLines == 5

NaN == [ok |-> FALSE, v |-> 0]
Num(v) == [ok |-> TRUE, v |-> v]

\* parseFloat(value): the numeric prefix of the line, NaN without one
ParseFloatLine(l) ==
    IF l.date = "slash" \/ l.date = "dmony" THEN Num(100)
    ELSE IF l.date = "dmon" THEN Num(800)
    ELSE IF l.date = "ord" THEN Num(1600)
    ELSE IF l.text # "" THEN NaN
    ELSE IF l.nums # <<>> THEN Num(l.nums[1])
    ELSE NaN

\* label === 'date', label === 'description', ...: the line is the label alone
IsLabel(l, S) == l.date = "none" /\ l.text \in S /\ l.nums = <<>>
IsBlankValue(l) == IsLabel(l, ColBlankText)

\* lines[j + 1]?.trim() || ''
ValueAt(lines, j) == IF j + 1 < Len(lines) THEN At(lines, j + 1) ELSE BlankLine

\* skip the header rows in front of the first record
ColumnarSkipHeader(lines, startIndex) ==
    ScanTo(lines, startIndex, LAMBDA l : l.text \notin ColSkipHeaderText)

\* the inner label/value walk; r = [j, description, moneyIn, moneyOut, balance]
RECURSIVE ColumnarWalk(_, _, _)
ColumnarWalk(lines, i, r) ==
    LET j == r.j
        label == At(lines, j)
        value == ValueAt(lines, j)
        amount == ParseFloatLine(value)
    IN
    IF ~(j < i + lookahead /\ j < Len(lines)) THEN r
    ELSE IF IsLabel(label, ColDescLabelText)
    THEN ColumnarWalk(lines, i, [r EXCEPT !.j = j + 2, !.description = TokenWords(value, TRUE)])
    ELSE IF IsLabel(label, ColTypeLabelText)
    THEN ColumnarWalk(lines, i, [r EXCEPT !.j = j + 2])
    ELSE IF label.text \in ColInLabelText
    THEN ColumnarWalk(lines, i, [r EXCEPT !.j = j + 2,
                                          !.moneyIn = IF amount.ok THEN amount.v ELSE @])
    ELSE IF label.text \in ColOutLabelText
    THEN ColumnarWalk(lines, i, [r EXCEPT !.j = j + 2,
                                          !.moneyOut = IF ~IsBlankValue(value) /\ amount.ok
                                                       THEN amount.v ELSE @])
    ELSE IF label.text \in ColBalLabelText
    THEN [r EXCEPT !.j = j + 2,
                   !.balance = IF ~IsBlankValue(value) /\ ~IsEmptyLine(value)
                                  /\ amount.ok /\ amount.v > 0
                               THEN amount.v ELSE @]
    ELSE IF IsLabel(label, ColDateLabelText)
    THEN r
    ELSE ColumnarWalk(lines, i, [r EXCEPT !.j = j + 1])

ColumnarAmount(moneyIn, moneyOut) ==
    IF moneyIn > 0 /\ moneyOut = 0 THEN [amount |-> moneyIn, type |-> "credit"]
    ELSE IF moneyOut > 0 /\ moneyIn = 0 THEN [amount |-> moneyOut, type |-> "debit"]
    ELSE IF moneyIn > 0 THEN [amount |-> moneyIn, type |-> "credit"]
    ELSE IF moneyOut > 0 THEN [amount |-> moneyOut, type |-> "debit"]
    ELSE [amount |-> 0, type |-> "debit"]

\* an outer loop that reads the record it has just emitted once more
ColumnarStepReread(lines, s) ==
    LET i == s.i
        line1 == At(lines, i)
        line2 == At(lines, i + 1)
        r == ColumnarWalk(lines, i, [j |-> i + 2, description |-> <<>>,
                                     moneyIn |-> 0, moneyOut |-> 0, balance |-> 0])
        at == ColumnarAmount(r.moneyIn, r.moneyOut)
    IN
    IF IsLabel(line1, ColDateLabelText)
    THEN IF line2.date = "dmony"
         THEN IF at.amount > 0 /\ r.description # <<>>
              THEN [s EXCEPT !.tx = push(@, Txn(<<DateStr("dmony")>>, r.description, at.amount,
                                            IF r.balance > 0 THEN Some(r.balance) ELSE Undefined,
                                            at.type, i))]
              ELSE [s EXCEPT !.i = r.j]
         ELSE [s EXCEPT !.i = i + 1]
    ELSE [s EXCEPT !.i = i + 1]
\* one iteration of the outer while loop of extractTransactionsColumnar
ColumnarStep(lines, s) ==
    LET i == s.i
        line1 == At(lines, i)
        line2 == At(lines, i + 1)
        r == ColumnarWalk(lines, i, [j |-> i + 2, description |-> <<>>,
                                     moneyIn |-> 0, moneyOut |-> 0, balance |-> 0])
        at == ColumnarAmount(r.moneyIn, r.moneyOut)
    IN
    IF IsLabel(line1, ColDateLabelText)
    THEN IF line2.date = "dmony"
         THEN IF at.amount > 0 /\ r.description # <<>>
              THEN [s EXCEPT !.i = r.j,
                       !.tx = push(@, Txn(<<DateStr("dmony")>>, r.description, at.amount,
                                            IF r.balance > 0 THEN Some(r.balance) ELSE Undefined,
                                            at.type, i))]
              ELSE [s EXCEPT !.i = r.j]
         ELSE [s EXCEPT !.i = i + 1]
    ELSE [s EXCEPT !.i = i + 1]

\* --------------------------------------------------- institution markers
NatWestMarkerText == {"nw_issuer", "nw_period"}
NationwideMarkerText == {"na_issuer", "na_stmt"}
SantanderMarkerText == {"sa_issuer", "sa_summary"}
MonzoMarkerText == {"mz_issuer"}

TextIncludes(lines, S) == \E k \in 1..Len(lines) : lines[k].text \in S

\* a dispatch that looks for the Nationwide markers first
SelectParserNationwideFirst(lines) ==
    IF TextIncludes(lines, NationwideMarkerText) THEN "nationwide"
    ELSE IF TextIncludes(lines, NatWestMarkerText) THEN "natwest"
    ELSE IF TextIncludes(lines, SantanderMarkerText) THEN "santander"
    ELSE IF TextIncludes(lines, MonzoMarkerText) THEN "monzo"
    ELSE "strict"
\* the parser extractTransactions hands the text to
SelectParser(lines) ==
    IF TextIncludes(lines, NatWestMarkerText) THEN "natwest"
    ELSE IF TextIncludes(lines, NationwideMarkerText) THEN "nationwide"
    ELSE IF TextIncludes(lines, SantanderMarkerText) THEN "santander"
    ELSE IF TextIncludes(lines, MonzoMarkerText) THEN "monzo"
    ELSE "strict"

\* ------------------------------------------------------------------ CSV
\* A row maps header names to cells.  A cell is its string s, with k the
\* shape of the string ("empty", "num", "text") and v the value parseFloat
\* gives a "num" cell, in pence.
Cell(k, v, str) == [k |-> k, v |-> v, s |-> str]
EmptyCell == Cell("empty", 0, "")

dateKeys == <<"date", "transaction date", "posting date", "Date", "Transaction Date">>
descriptionKeys == <<"description", "details", "memo", "Description", "Details", "Memo">>
amountKeys == <<"amount", "debit", "credit", "Amount", "Debit", "Credit">>
balanceKeys == <<"balance", "Balance", "running balance", "Running Balance">>
typeKeys == <<"type", "Type", "transaction type", "Transaction Type">>

\* keys.find((key) => row[key] !== undefined), "" when there is none
RECURSIVE FindKey(_, _)
FindKey(row, keys) ==
    IF keys = <<>> THEN ""
    ELSE IF Head(keys) \in DOMAIN row THEN Head(keys) ELSE FindKey(row, Tail(keys))

\* the test that would leave the debit and credit columns aside whenever the
\* row has an amount column
TruthyWithoutAmount(row, key) ==
    key \in DOMAIN row /\ row[key].k # "empty" /\ "amount" \notin DOMAIN row
\* row[key] is truthy: present and not the empty string
Truthy(row, key) == key \in DOMAIN row /\ row[key].k # "empty"
ParseFloatCell(c) == IF c.k = "num" THEN Num(c.v) ELSE NaN
\* row[a] || row[b]
OrCell(row, a, b) == IF Truthy(row, a) THEN row[a] ELSE row[b]

toLowerCase(str) ==
    CASE str = "Debit" -> "debit" [] str = "DEBIT" -> "debit"
      [] str = "Credit" -> "credit" [] OTHER -> str

\* CSVParser.mapRowToTransaction; Undefined (null) when the row is dropped
mapRowToTransaction(row, anchor) ==
    LET dateKey == FindKey(row, dateKeys)
        date == IF dateKey # "" THEN row[dateKey].s ELSE ""
        descriptionKey == FindKey(row, descriptionKeys)
        description == IF descriptionKey # "" THEN row[descriptionKey].s ELSE "Unknown transaction"
        amountKey == FindKey(row, amountKeys)
        parsed == IF amountKey # "" THEN ParseFloatCell(row[amountKey]) ELSE Num(0)
        at == IF Truthy(row, "debit") \/ Truthy(row, "Debit")
              THEN [amount |-> ParseFloatCell(OrCell(row, "debit", "Debit")), type |-> "debit"]
              ELSE IF Truthy(row, "credit") \/ Truthy(row, "Credit")
              THEN [amount |-> ParseFloatCell(OrCell(row, "credit", "Credit")), type |-> "credit"]
              ELSE IF amountKey # ""
              THEN [amount |-> IF parsed.ok THEN Num(Abs(parsed.v)) ELSE NaN,
                    type |-> IF parsed.ok /\ parsed.v < 0 THEN "debit" ELSE "credit"]
              ELSE [amount |-> Num(0), type |-> "undefined"]
        balanceKey == FindKey(row, balanceKeys)
        balance == IF balanceKey # "" THEN ParseFloatCell(row[balanceKey]) ELSE NaN
        typeKey == FindKey(row, typeKeys)
        type == IF at.type # "undefined" THEN at.type
                ELSE IF typeKey # "" THEN toLowerCase(row[typeKey].s) ELSE "undefined"
    IN IF date = "" \/ ~at.amount.ok THEN Undefined
       ELSE Some(Txn(<<date>>, <<description>>, at.amount.v,
                     IF balance.ok /\ balance.v # 0 THEN Some(balance.v) ELSE Undefined,
                     type, anchor))

\* the "data" handler of parseCSV, for row i
CSVStep(rows, s) ==
    LET transaction == mapRowToTransaction(At(rows, s.i), s.i)
    IN IF transaction # Undefined
       THEN [s EXCEPT !.i = s.i + 1, !.tx = push(@, transaction[1])]
       ELSE [s EXCEPT !.i = s.i + 1]

CSVStart == [stage |-> "csv", i |-> 0, tx |-> <<>>, cur |-> <<>>, sec |-> FALSE]

\* -------------------------------------------------------- the scan machine
\* s.stage : the loop that is running, s.i : its cursor, s.tx : transactions,
\* s.cur : currentDate, s.sec : inTransactionSection
ScanStart == [stage |-> "classify", i |-> 0, tx |-> <<>>, cur |-> <<>>, sec |-> FALSE]
ScanDone(s) == [s EXCEPT !.stage = "done"]

\* the prologue of extractTransactionsLenient
LenientEnter(lines, s) ==
    IF isColumnarFormat(lines)
    THEN [s EXCEPT !.stage = "columnar",
                   !.i = ColumnarSkipHeader(lines, transactionSectionStart(lines))]
    ELSE [s EXCEPT !.stage = "lenient", !.i = transactionSectionStart(lines) + headerSkip]

ScanStep(lines, s) ==
    CASE s.stage = "classify" -> [s EXCEPT !.stage = SelectParser(lines)]
      [] s.stage = "natwest" ->
            IF s.i < Len(lines) THEN NatWestStep(lines, NatWestYear(lines), s) ELSE ScanDone(s)
      [] s.stage = "nationwide" ->
            IF s.i < Len(lines) THEN NationwideStep(lines, NationwideYear(lines), s) ELSE ScanDone(s)
      [] s.stage = "santander" ->
            IF s.i < Len(lines) THEN SantanderStep(lines, SantanderYear(lines), s) ELSE ScanDone(s)
      [] s.stage = "monzo" ->
            IF s.i < Len(lines) THEN MonzoStep(lines, s) ELSE ScanDone(s)
      [] s.stage = "strict" ->
            IF s.i < Len(lines) THEN StrictStep(lines, s)
            ELSE IF s.tx = <<>> THEN LenientEnter(lines, s) ELSE ScanDone(s)
      [] s.stage = "lenient" ->
            IF s.i < Len(lines) THEN LenientStep(lines, s) ELSE ScanDone(s)
      [] s.stage = "columnar" ->
            IF s.i < Len(lines) - recordLines THEN ColumnarStep(lines, s) ELSE ScanDone(s)
      [] s.stage = "csv" ->
            IF s.i < Len(lines) THEN CSVStep(lines, s) ELSE ScanDone(s)
      [] OTHER -> s

\* PDFParser.extractTransactions(text)
RECURSIVE RunScan(_, _)
RunScan(lines, s) == IF s.stage = "done" THEN s ELSE RunScan(lines, ScanStep(lines, s))
extractTransactions(lines) == RunScan(lines, ScanStart).tx


\* ------------------------------------------------------- sample documents
\* all sequences over S of length 0..n
SeqUpTo(S, n) == UNION {[1..k -> S] : k \in 0..n}

RECURSIVE Flatten(_)
Flatten(ss) == IF ss = <<>> THEN <<>> ELSE Head(ss) \o Flatten(Tail(ss))

Filler == Ln("none", "filler", <<>>)

NatWestLines ==
    { BlankLine,
      Ln("dmon", "nw_bf", <<31341>>),               \* 08 SEP BROUGHT FORWARD 313.41
      Ln("none", "nw_bf", <<31341>>),               \* BROUGHT FORWARD 313.41
      Ln("dmon", "plain", <<4557, 12000>>),         \* 08 SEP TESCO STORES 45.57 120.00
      Ln("dmon", "nw_credit", <<2000, 500, 6864>>), \* 08 SEP Automated Credit ACME 20.00 5.00 68.64
      Ln("dmon", "plain", <<0, 4557, 12000>>),      \* 08 SEP TESCO STORES 0.00 45.57 120.00
      Ln("dmon", "plain", <<2000, 0, 6864>>),       \* 08 SEP TESCO STORES 20.00 0.00 68.64
      Ln("dmon", "nw_card", <<>>),                  \* 08 SEP Card Transaction
      Ln("dmon", "plain", <<12000>>),               \* 08 SEP TESCO STORES 120.00
      Ln("none", "plain", <<4557, 12000>>),         \* TESCO STORES 45.57 120.00
      Ln("none", "nw_kw", <<22647, 37136>>) }       \* Direct Debit BLACK HORSE 226.47 371.36
NatWestHeaders == {Ln("none", "nw_issuer", <<>>), Ln("none", "nw_period", <<>>)}

NationwideLines ==
    { BlankLine,
      Ln("none", "na_skip", <<>>),                  \* Sort code 07-00-93
      LnGlued("none", "na_bf", <<31341>>),          \* Balance from statement 47 dated 05/02/2025313.41
      Ln("none", "na_bf", <<31341>>),               \* Balance from statement 47 dated 05/02/2025 313.41
      Ln("dmon", "plain", <<4557, 12000>>),         \* 08 SEP TESCO STORES 45.57 120.00
      Ln("dmon", "na_credit", <<4557, 12000>>),     \* 08 SEP Bank credit ACME 45.57 120.00
      Ln("dmon", "plain", <<500, 2000, 6864>>),     \* 08 SEP TESCO STORES 5.00 20.00 68.64
      Ln("dmon", "plain", <<4557, 0, 12000>>),      \* 08 SEP TESCO STORES 45.57 0.00 120.00
      Ln("dmon", "plain", <<0, 2000, 6864>>),       \* 08 SEP TESCO STORES 0.00 20.00 68.64
      Ln("dmon", "plain", <<12000>>),               \* 08 SEP TESCO STORES 120.00
      Ln("dmon", "plain", <<0, 12000>>) }           \* 08 SEP TESCO STORES 0.00 120.00
NationwideHeaders == {Ln("none", "na_issuer", <<>>), Ln("none", "na_stmt", <<>>)}

SantanderLines ==
    { BlankLine,
      Ln("ord", "sa_bfprev", <<12819>>),            \* 16th Sep Balance brought forward from previous statement 128.19
      Ln("none", "sa_bf", <<12819>>),               \* Balance brought forward from 15th Sep Statement 128.19
      Ln("none", "sa_bf", <<>>),                    \* Balance brought forward from 15th Sep Statement
      Ln("ord", "plain", <<4557, 12000>>),          \* 16th Sep TESCO STORES 45.57 120.00
      Ln("ord", "sa_credit", <<4557, 12000>>),      \* 16th Sep FASTER PAYMENTS RECEIPT ACME 45.57 120.00
      Ln("ord", "plain", <<2000, 500, 6864>>),      \* 16th Sep TESCO STORES 20.00 5.00 68.64
      Ln("ord", "plain", <<2000, 0, 6864>>),        \* 16th Sep TESCO STORES 20.00 0.00 68.64
      Ln("ord", "plain", <<>>),                     \* 16th Sep TESCO STORES
      Ln("none", "plain", <<0, 4557, 12000>>),      \* TESCO STORES 0.00 45.57 120.00
      Ln("ord", "plain", <<12000>>),                \* 16th Sep TESCO STORES 120.00
      Ln("ord", "sa_range", <<>>) }                 \* 16th Sep 2025 to 15th Oct 2025
SantanderHeaders == {Ln("none", "sa_issuer", <<>>), Ln("none", "sa_summary", <<>>)}

MonzoLines ==
    { BlankLine,
      Ln("none", "mz_header", <<>>),                \* Date Description (GBP) Amount (GBP) Balance
      Ln("none", "mz_footer", <<>>),                \* Sort code: 04-00-04
      Ln("none", "mz_none", <<>>),                  \* There were no transactions during this period
      Ln("slash", "plain", <<-2099, 10000>>),       \* 01/12/2024 TESCO STORES -20.99 100.00
      Ln("slash", "plain", <<0, 10000>>),           \* 01/12/2024 TESCO STORES 0.00 100.00
      Ln("slash", "", <<500, 2500>>),               \* 01/12/2024 5.00 25.00
      Ln("slash", "", <<500, 10000>>),              \* 01/12/2024 5.00 100.00
      Ln("slash", "plain", <<>>),                   \* 01/12/2024 TESCO STORES
      Ln("none", "plain", <<3000, 13000>>),         \* TESCO STORES 30.00 130.00
      Ln("slash", "plain", <<10000>>) }             \* 01/12/2024 TESCO STORES 100.00
MonzoHeaders == {Ln("none", "mz_issuer", <<>>)}

StrictLines ==
    { BlankLine,
      Ln("none", "ge_header", <<>>),                \* Date Description Amount Balance
      Ln("slash", "plain", <<4557, 12000>>),        \* 01/12/2024 TESCO STORES 45.57 120.00
      Ln("slash", "ge_credit", <<4557>>),           \* 01/12/2024 SALARY ACME credit 45.57
      Ln("slash", "plain", <<-4557, 12000>>),       \* 01/12/2024 TESCO STORES -45.57 120.00
      Ln("slash", "plain", <<100>>),                \* 01/12/2024 TESCO STORES 1.00
      Ln("slash", "", <<>>),                        \* 01/12/2024
      Ln("none", "plain", <<4557>>),                \* TESCO STORES 45.57
      Ln("dmony", "plain", <<2000, 6864>>) }        \* 01 Aug 25 TESCO STORES 20.00 68.64
GenericHeaders == {Ln("none", "stmt", <<>>), Ln("none", "le_header", <<>>)}

LenientLines ==
    { BlankLine,
      Ln("none", "le_skip", <<>>),                  \* Page 1 of 2
      Ln("dmony", "plain", <<2000>>),               \* 01 Aug 25 TESCO STORES 20.00
      Ln("dmony", "le_blank", <<2000>>),            \* 01 Aug 25 TESCO STORES blank 20.00
      Ln("dmony", "plain", <<2000, 6864>>),         \* 01 Aug 25 TESCO STORES 20.00 68.64
      Ln("dmony", "plain", <<2000, 500, 6864>>),    \* 01 Aug 25 TESCO STORES 20.00 5.00 68.64
      Ln("dmony", "plain", <<0, 500, 6864>>),       \* 01 Aug 25 TESCO STORES 0.00 5.00 68.64
      Ln("dmony", "plain", <<2000, 0, 6864>>),      \* 01 Aug 25 TESCO STORES 20.00 0.00 68.64
      Ln("dmony", "co_tfr", <<2000, 6864>>),        \* 01 Aug 25 TFR 20.00 68.64
      Ln("dmony", "plain", <<>>),                   \* 01 Aug 25 TESCO STORES
      Ln("dmony", "", <<0, 6864>>) }                \* 01 Aug 25 0.00 68.64

\* records of the columnar form, label and value on lines of their own
Label(t) == Ln("none", t, <<>>)
Value(n) == Ln("none", "", <<n>>)
ColumnarRecords ==
    { <<Label("co_date"), Ln("dmony", "", <<>>), Label("co_desc"), Label("plain"),
        Label("co_type"), Label("co_tfr"), Label("co_in"), Value(2000),
        Label("co_out"), Label("co_blank"), Label("co_bal"), Value(6864)>>,
      <<Label("co_date"), Ln("dmony", "", <<>>), Label("co_desc"), Label("plain"),
        Label("co_in"), Label("co_blank"), Label("co_out"), Value(500),
        Label("co_bal"), Value(6364)>>,
      <<Label("co_date"), Ln("dmony", "", <<>>), Label("co_desc"), Label("plain"),
        Label("co_in"), Value(2000), Label("co_out"), Value(500),
        Label("co_bal"), Label("co_blank")>>,
      <<Label("co_date"), Ln("dmony", "", <<>>), Label("co_desc"), Label("plain"),
        Label("co_in"), Value(2000)>>,
      <<Label("co_date"), Ln("dmony", "", <<>>), Label("co_in"), Value(2000),
        Label("co_bal"), Value(6864)>>,
      <<Label("co_date"), Label("plain"), Label("co_desc"), Label("plain"),
        Label("co_in"), Value(0), Label("co_out"), Value(0)>>,
      <<Label("plain"), BlankLine>> }

\* CSV files: a header row and the cells under it
D(str) == Cell("text", 0, str)
N(v, str) == Cell("num", v, str)
CsvDates == {D("01/01/2024"), EmptyCell}
CsvAmounts == {N(450, "4.50"), N(-450, "-4.50"), N(0, "0"), D("n/a"), EmptyCell}
CsvRowsAmount ==
    { [Date |-> d, Description |-> D("Coffee Shop"), Amount |-> a, Balance |-> N(9550, "95.50")]
        : d \in CsvDates, a \in CsvAmounts }
CsvRowsDebitCredit ==
    { [date |-> D("01/01/2024"), details |-> D("Coffee Shop"), debit |-> a, credit |-> b,
       amount |-> N(700, "7.00"), balance |-> N(0, "0.00")]
        : a \in CsvAmounts, b \in {N(1200, "12.00"), EmptyCell} }
CsvRowsPosting ==
    { ("Posting Date" :> D("01/01/2024")) @@ ("Details" :> D("Coffee Shop"))
        @@ ("Debit" :> a) @@ ("Credit" :> EmptyCell) @@ ("Running Balance" :> N(9550, "95.50"))
        : a \in {N(450, "4.50"), EmptyCell} }
CsvRowsType ==
    { [Date |-> D("01/01/2024"), Memo |-> D("Coffee Shop"), Type |-> t]
        : t \in {D("Debit"), D("fee")} }

\* a statement: a header line, pad filler lines, then the lines of the body
Fillers(pad) == [k \in 1..pad |-> Filler]
Doc(h, pad, b) == <<h>> \o Fillers(pad) \o b
Banks == {"natwest", "nationwide", "santander", "monzo", "strict", "lenient"}
HeadersOf(bank) ==
    CASE bank = "natwest" -> NatWestHeaders
      [] bank = "nationwide" -> NationwideHeaders
      [] bank = "santander" -> SantanderHeaders
      [] bank = "monzo" -> MonzoHeaders
      [] OTHER -> GenericHeaders
LinesOf(bank) ==
    CASE bank = "natwest" -> NatWestLines
      [] bank = "nationwide" -> NationwideLines
      [] bank = "santander" -> SantanderLines
      [] bank = "monzo" -> MonzoLines
      [] bank = "strict" -> StrictLines
      [] OTHER -> LenientLines
\* the lenient tier starts headerSkip lines under the section header
PadOf(bank) == IF bank = "lenient" THEN headerSkip - 1 ELSE 0
CsvRowSets == {CsvRowsAmount, CsvRowsDebitCredit, CsvRowsPosting, CsvRowsType}
\* statements that carry the header lines of two institutions
AllHeaders ==
    NatWestHeaders \cup NationwideHeaders \cup SantanderHeaders \cup MonzoHeaders
    \cup GenericHeaders
MixedLines ==
    { Ln("dmon", "plain", <<4557, 12000>>),         \* 08 SEP TESCO STORES 45.57 120.00
      Ln("ord", "plain", <<4557, 12000>>),          \* 16th Sep TESCO STORES 45.57 120.00
      Ln("slash", "plain", <<-2099, 10000>>) }      \* 01/12/2024 TESCO STORES -20.99 100.00

\* texts of one line of which only the make-up matters: white space around
\* alphanumeric and other characters; RawLine(0, 0, 0, 0) is the empty text
RawTexts ==
    {<<RawLine(lead, alnum, other, trail)>> :
        lead \in {0, 2}, alnum \in {0, 80, 100, 199, 200, 300, 600},
        other \in {0, 100, 101, 301}, trail \in {0, 1}}
\* ------------------------------------------------------------------ state
VARIABLES
    input,       \* the uploaded file: kind, body (lines or rows), ok, numPages, format
    scan,        \* the scan state of the parser that reads input.body
    pc,          \* where handleUpload is: received, parsed, threw, done
    parsedData,  \* what parsePDF or parseCSV returned
    response,    \* the response sent
    trace,       \* the services called, in order
    db,          \* the user store: which store it is, its users, its conversionLogs, the date
    requests,    \* the requests of the upload, register and webhook routes
    ocrService   \* the OCR service: its scheduler and the recognitions it was asked for

vars == <<input, scan, pc, parsedData, response, trace, db, requests, ocrService>>
\* what the parsers and handleUpload leave alone
backend == <<db, requests, ocrService>>

\* the bounds of the requests, of the days and of the recognitions
MaxRequests == 3
MaxDays == 1
MaxCalls == 3
\* a store with no user and no log, on day 0
EmptyStore(store) == [store |-> store, users |-> <<>>, conversionLogs |-> <<>>, today |-> 0]
\* a request slot before its request arrives
NoRequest ==
    [route |-> "none", pc |-> "idle", userId |-> 0, pagesInFile |-> 0, email |-> "",
     sig |-> "", type |-> "", plan |-> "", status |-> 0, success |-> "absent", error |-> "",
     handler |-> ""]
\* new OCRService(): scheduler null (not created, no worker), no call made
NoScheduler ==
    [scheduler |-> [created |-> FALSE, workers |-> 0, numWorkers |-> 0],
     calls |-> [c \in 1..MaxCalls |-> "idle"]]
ServiceIdle ==
    /\ db = EmptyStore("memory")
    /\ requests = [r \in 1..MaxRequests |-> NoRequest]
    /\ ocrService = NoScheduler

File(kind, body, ok, numPages, format) ==
    [kind |-> kind, body |-> body, ok |-> ok, numPages |-> numPages, format |-> format]
NoData == [none |-> TRUE]
NoResponse == [status |-> 0]
ScanIdle == [stage |-> "idle", i |-> 0, tx |-> <<>>, cur |-> <<>>, sec |-> FALSE]

\* ---------------------------------------------- the parsers on their own
ScanInit ==
    /\ ServiceIdle
    /\ \/ \E bank \in Banks : \E h \in HeadersOf(bank) :
            \E b \in SeqUpTo(LinesOf(bank), MaxBody) :
                /\ input = File("pdf", Doc(h, PadOf(bank), b), TRUE, 1, "csv")
                /\ scan = ScanStart
       \/ \E h \in GenericHeaders : \E rs \in SeqUpTo(ColumnarRecords, MaxBody) :
            /\ input = File("pdf", <<h>> \o Flatten(rs), TRUE, 1, "csv")
            /\ scan = ScanStart
       \/ \E h1 \in AllHeaders : \E h2 \in AllHeaders : \E b \in SeqUpTo(MixedLines, 1) :
            /\ input = File("pdf", <<h1, h2>> \o b, TRUE, 1, "csv")
            /\ scan = ScanStart
       \/ \E rows \in CsvRowSets : \E r \in SeqUpTo(rows, MaxBody) :
            /\ input = File("csv", r, TRUE, 0, "csv")
            /\ scan = CSVStart
    /\ pc = "idle"
    /\ parsedData = NoData
    /\ response = NoResponse
    /\ trace = <<>>

\* one step of the loop that is running
Advance ==
    /\ scan' = ScanStep(input.body, scan)
    /\ UNCHANGED <<backend, input, pc, parsedData, response, trace>>

\* the dispatch of extractTransactions, then one action per loop
Classify == scan.stage = "classify" /\ Advance
NatWestScan == scan.stage = "natwest" /\ Advance
NationwideScan == scan.stage = "nationwide" /\ Advance
SantanderScan == scan.stage = "santander" /\ Advance
MonzoScan == scan.stage = "monzo" /\ Advance
StrictScan == scan.stage = "strict" /\ Advance
LenientScan == scan.stage = "lenient" /\ Advance
ColumnarScan == scan.stage = "columnar" /\ Advance
CSVScan == scan.stage = "csv" /\ Advance

ScanNext ==
    \/ Classify \/ NatWestScan \/ NationwideScan \/ SantanderScan \/ MonzoScan
    \/ StrictScan \/ LenientScan \/ ColumnarScan \/ CSVScan

SpecScan == ScanInit /\ [][ScanNext]_vars

\* ---------------------------------------------------- PDFParser.parsePDF
Return(v) == [threw |-> FALSE, value |-> v]
Throw(msg) == [threw |-> TRUE, error |-> msg]

\* a catch block that answers with an empty statement
parsePDFCatchEmpty ==
    Return([transactions |-> <<>>, rawLength |-> 0, needsOCR |-> FALSE,
            isScanned |-> FALSE, ranParser |-> FALSE, final |-> ScanIdle])
\* the catch block of parsePDF
parsePDFCatch == Throw("Failed to parse PDF file")

\* needsOCR without the test of the text
needsOCRNoText(transactions, text) == Len(transactions) = 0
\* transactions.length === 0 && text.length > 0
needsOCR(transactions, text) == Len(transactions) = 0 /\ TextLength(text) > 0

\* what parsePDF returns for a scanned text, and for a text it has parsed;
\* isScanned and ranParser record the path taken, final the parser's last state
ScannedResult(text) ==
    [transactions |-> <<>>, rawLength |-> TextLength(text), needsOCR |-> TRUE,
     isScanned |-> TRUE, ranParser |-> FALSE, final |-> ScanIdle]
ParsedResult(text, final) ==
    [transactions |-> final.tx, rawLength |-> TextLength(text),
     needsOCR |-> needsOCR(final.tx, text),
     isScanned |-> FALSE, ranParser |-> TRUE, final |-> final]

\* parsePDF(buffer): file.ok says whether pdfParse can read the bytes
parsePDF(file) ==
    IF ~file.ok THEN parsePDFCatch
    ELSE IF isLikelyScannedPDF(file.body, file.numPages)
         THEN Return(ScannedResult(file.body))
         ELSE Return(ParsedResult(file.body, RunScan(file.body, ScanStart)))

\* ----------------------------------------------------- CSVParser.parseCSV
RECURSIVE CellChars(_, _)
CellChars(row, keys) ==
    IF keys = {} THEN 0
    ELSE LET k == CHOOSE k \in keys : TRUE
         IN Len(k) + Len(row[k].s) + 2 + CellChars(row, keys \ {k})
\* file.buffer.toString("utf-8").length: the header row and the rows, every
\* cell followed by a comma or a line end
CsvLength(rows) ==
    IF rows = <<>> THEN 0
    ELSE Sum([k \in 1..Len(rows) |-> CellChars(rows[k], DOMAIN rows[k])])
         - (Len(rows) - 1) * CellChars([k \in DOMAIN rows[1] |-> EmptyCell], DOMAIN rows[1])
         + (Len(rows) - 1) * Cardinality(DOMAIN rows[1])

CSVResult(rows, final) ==
    [transactions |-> final.tx, rawLength |-> CsvLength(rows),
     needsOCR |-> FALSE, isScanned |-> FALSE, ranParser |-> TRUE, final |-> final]
parseCSV(file) == CSVResult(file.body, RunScan(file.body, CSVStart))

\* ------------------------------------------- UploadController.handleUpload
excerptLimit == 500
\* an excerpt that is the whole of the raw content
rawExcerptWhole(length) == length
\* rawContent.substring(0, 500).length
rawExcerpt(length) == Min(length, excerptLimit)

NoTransactionsText == {"mz_none"}
\* rawContent.toLowerCase().includes("there were no transactions during this period")
isEmptyMonzoStatement(file) ==
    file.kind = "pdf" /\ TextIncludes(file.body, NoTransactionsText)

ErrorResponse(status, error, excerpt) ==
    [status |-> status, success |-> FALSE, error |-> error, rawLength |-> excerpt,
     csv |-> FALSE, xlsx |-> FALSE, transactionCount |-> 0,
     usedOCR |-> FALSE, ocrConfidence |-> Undefined]
SuccessResponse(data, format) ==
    [status |-> 200, success |-> TRUE, error |-> "", rawLength |-> data.rawLength,
     csv |-> TRUE, xlsx |-> (format = "xlsx"), transactionCount |-> Len(data.transactions),
     usedOCR |-> FALSE, ocrConfidence |-> Undefined]

Formats == {"csv", "xlsx"}
Init ==
    /\ ServiceIdle
    /\ \/ input = File("none", <<>>, TRUE, 0, "csv")
       \/ input = File("other", <<>>, TRUE, 0, "csv")
       \/ \E f \in Formats : input = File("pdf", <<>>, FALSE, 0, f)
       \/ \E t \in RawTexts : \E n \in 0..MaxPages : \E f \in Formats :
            input = File("pdf", t, TRUE, n, f)
       \/ \E bank \in Banks : \E h \in HeadersOf(bank) : \E pad \in {0, headerSkip - 1} :
            \E b \in SeqUpTo(LinesOf(bank), 1) : \E n \in 0..MaxPages : \E f \in Formats :
                input = File("pdf", Doc(h, pad, b), TRUE, n, f)
       \/ \E h \in GenericHeaders : \E rs \in SeqUpTo(ColumnarRecords, 1) :
            \E n \in 0..MaxPages : \E f \in Formats :
                input = File("pdf", <<h>> \o Flatten(rs), TRUE, n, f)
       \/ \E rows \in CsvRowSets : \E r \in SeqUpTo(rows, 1) : \E f \in Formats :
            input = File("csv", r, TRUE, 0, f)
    /\ scan = ScanIdle
    /\ pc = "received"
    /\ parsedData = NoData
    /\ response = NoResponse
    /\ trace = <<>>

\* if (!req.file)
NoFile ==
    /\ pc = "received" /\ input.kind = "none"
    /\ response' = ErrorResponse(400, "No file uploaded", 0)
    /\ pc' = "done"
    /\ UNCHANGED <<backend, input, scan, parsedData, trace>>

\* the PDF branch up to the end of await parsePDF: the needsOCR test that
\* follows takes the result as it is in both of its branches
ParsePDF ==
    /\ pc = "received" /\ input.kind = "pdf"
    /\ \E r \in {parsePDF(input)} :
          /\ pc' = IF r.threw THEN "threw" ELSE "parsed"
          /\ parsedData' = IF r.threw THEN NoData ELSE r.value
          /\ scan' = IF r.threw THEN scan ELSE r.value.final
          /\ trace' = trace \o <<"pdfParse">>
                      \o (IF input.ok THEN <<"isLikelyScannedPDF">> ELSE <<>>)
                      \o (IF ~r.threw /\ r.value.ranParser
                          THEN <<"extractTransactions">> ELSE <<>>)
    /\ UNCHANGED <<backend, input, response>>

\* the CSV branch
ParseCSV ==
    /\ pc = "received" /\ input.kind = "csv"
    /\ \E r \in {parseCSV(input)} : parsedData' = r /\ scan' = r.final
    /\ trace' = trace \o <<"parseCSV">>
    /\ pc' = "parsed"
    /\ UNCHANGED <<backend, input, response>>

\* neither a PDF nor a CSV
Unsupported ==
    /\ pc = "received" /\ input.kind = "other"
    /\ response' = ErrorResponse(400, "Unsupported file type", 0)
    /\ pc' = "done"
    /\ UNCHANGED <<backend, input, scan, parsedData, trace>>

\* from the test of the transactions to the response; generateCSV and
\* generateXLSX throw only on an empty list, which the success branch excludes
Respond ==
    /\ pc = "parsed"
    /\ IF Len(parsedData.transactions) = 0
       THEN /\ response' = ErrorResponse(400,
                              IF isEmptyMonzoStatement(input)
                              THEN "This statement has no transactions"
                              ELSE "No transactions found in the file",
                              rawExcerpt(parsedData.rawLength))
            /\ UNCHANGED trace
       ELSE /\ response' = SuccessResponse(parsedData, input.format)
            /\ trace' = trace \o <<"generateCSV">>
                        \o (IF input.format = "xlsx" THEN <<"generateXLSX">> ELSE <<>>)
    /\ pc' = "done"
    /\ UNCHANGED <<backend, input, scan, parsedData>>

\* the catch block of handleUpload
Catch ==
    /\ pc = "threw"
    /\ response' = ErrorResponse(500, parsePDFCatch.error, 0)
    /\ pc' = "done"
    /\ UNCHANGED <<backend, input, scan, parsedData, trace>>

Next == NoFile \/ ParsePDF \/ ParseCSV \/ Unsupported \/ Respond \/ Catch

Spec == Init /\ [][Next]_vars

\* ------------------------------------------------ claims about the parsers
Finished == scan.stage = "done"
Parser == IF input.kind = "csv" THEN "csv" ELSE SelectParser(input.body)
TxIndex == 1..Len(scan.tx)

\* C5: every transaction a parser has produced has amount >= 0, and amount 0
\* only when its type is brought_forward
C5_AmountSign ==
    \A k \in TxIndex :
        /\ scan.tx[k].amount >= 0
        /\ scan.tx[k].amount = 0 => scan.tx[k].type = "brought_forward"

\* C6: a brought_forward transaction precedes every other transaction of
\* the statement: nothing of another type comes before it
C6_BroughtForwardFirst ==
    \A j \in TxIndex : \A k \in TxIndex :
        (j < k /\ scan.tx[k].type = "brought_forward") => scan.tx[j].type = "brought_forward"

\* the opening-balance marker of each bank parser
MarkerText(parser) ==
    CASE parser = "natwest" -> NatWestBFText
      [] parser = "nationwide" -> NationwideBFText
      [] parser = "santander" -> SantanderBFText
      [] OTHER -> {}
MarkerLines ==
    IF input.kind # "pdf" THEN {}
    ELSE {k \in 0..(Len(input.body) - 1) :
            /\ At(input.body, k).text \in MarkerText(Parser)
            /\ At(input.body, k).nums # <<>>}
OpeningBalancesAt(k) ==
    {n \in TxIndex :
        /\ scan.tx[n].anchor = k
        /\ scan.tx[n].type = "brought_forward"
        /\ scan.tx[n].amount = 0
        /\ scan.tx[n].balance = Some(At(input.body, k).nums[Len(At(input.body, k).nums)])}

\* C7: when a parser has finished, every line carrying the opening-balance
\* marker of its bank with a printed figure has produced exactly one
\* brought_forward transaction, with amount 0 and that figure as balance
C7_MarkerEmitsOpeningBalance ==
    Finished => \A k \in MarkerLines : Cardinality(OpeningBalancesAt(k)) = 1

\* C8: the transactions are in the order of their anchor lines: anchors
\* strictly increase along the output, so nothing is reordered, and a step
\* only ever appends, so nothing produced is dropped or merged later
C8_AnchorOrder ==
    \A j \in TxIndex : \A k \in TxIndex : j < k => scan.tx[j].anchor < scan.tx[k].anchor
\* two lines with the same content have both produced their transaction
C8_Witness ==
    /\ Finished
    /\ \E j \in TxIndex : \E k \in TxIndex :
        /\ j < k
        /\ [scan.tx[j] EXCEPT !.anchor = 0] = [scan.tx[k] EXCEPT !.anchor = 0]

\* ----------------------------------------------- claims about the upload
Parsed == pc \in {"parsed", "done"} /\ parsedData # NoData
PdfParsed == Parsed /\ input.kind = "pdf"
Called(service) == \E k \in 1..Len(trace) : trace[k] = service
Calls(service) == Cardinality({k \in 1..Len(trace) : trace[k] = service})

\* C1: when parsePDF has ended with needsOCR set, the request ends with OCR
\* having been run (processScannedPDF) and a response that carries
\* usedOCR = true and the confidence of the recognition
C1_OcrFallbackRuns ==
    (pc = "done" /\ PdfParsed /\ parsedData.needsOCR)
        => /\ Called("processScannedPDF")
           /\ response.usedOCR
           /\ response.ocrConfidence # Undefined

\* C2: for a text that was extracted, needsOCR is set exactly when the
\* detector returns true or the parser returns no transactions from a text
\* that is not empty; when the detector returns true no parser has run and
\* the transactions are empty
C2_NeedsOcrIff ==
    PdfParsed =>
        LET detected == isLikelyScannedPDF(input.body, input.numPages)
        IN /\ parsedData.needsOCR <=>
                \/ detected
                \/ extractTransactions(input.body) = <<>> /\ TextLength(input.body) > 0
           /\ detected => /\ ~Called("extractTransactions")
                          /\ scan = ScanIdle
                          /\ parsedData.transactions = <<>>
           /\ ~detected => /\ Calls("extractTransactions") = 1
                           /\ parsedData.transactions = extractTransactions(input.body)
\* the detector did not fire, the parser found nothing in a text that is not empty
C2_Witness ==
    /\ PdfParsed
    /\ ~isLikelyScannedPDF(input.body, input.numPages)
    /\ scan.stage = "done" /\ scan.tx = <<>>
    /\ TextLength(input.body) > 0
    /\ parsedData.needsOCR

\* C3: a request ends in a success response exactly when its transactions
\* are not empty; when they are empty the response is the 400 failure with
\* an excerpt of at most the first 500 characters of the raw text, and
\* neither CSV nor XLSX has been generated
C3_SuccessIffTransactions ==
    pc = "done" =>
        /\ response.success <=> (parsedData # NoData /\ parsedData.transactions # <<>>)
        /\ response.success => /\ response.status = 200
                               /\ response.csv /\ Calls("generateCSV") = 1
                               /\ response.xlsx <=> input.format = "xlsx"
        /\ (parsedData # NoData /\ parsedData.transactions = <<>>) =>
                /\ response.status = 400
                /\ response.rawLength = Min(parsedData.rawLength, 500)
                /\ ~response.csv /\ ~response.xlsx
                /\ ~Called("generateCSV") /\ ~Called("generateXLSX")
\* an empty result on a raw text of more than 500 characters
C3_Witness ==
    /\ pc = "done" /\ Parsed
    /\ parsedData.transactions = <<>>
    /\ parsedData.rawLength > 500
    /\ response.status = 400 /\ response.rawLength = 500

\* C4: when pdfParse fails on the bytes, parsePDF throws at once: no parser
\* and no OCR is run, pdfParse is called once, and the request ends with
\* the 500 error response, neither a success nor the empty-result response
C4_ExtractionFailureIsFatal ==
    (input.kind = "pdf" /\ ~input.ok /\ pc # "received") =>
        /\ pc \in {"threw", "done"}
        /\ trace = <<"pdfParse">>
        /\ scan = ScanIdle /\ parsedData = NoData
        /\ pc = "done" => /\ response.status = 500
                          /\ ~response.success
                          /\ response.error = "Failed to parse PDF file"
C4_Witness ==
    /\ input.kind = "pdf" /\ ~input.ok
    /\ pc = "done" /\ response.status = 500

\* C9: with a page count above 0 the detector returns true when the trimmed
\* length is below 0.2 * pageCount * 1000, else true when fewer than half
\* of the trimmed length are [A-Za-z0-9] characters, else false
C9_DetectorThresholds ==
    (PdfParsed /\ input.numPages > 0) =>
        /\ parsedData.isScanned <=>
                \/ 5 * TrimLength(input.body) < input.numPages * 1000
                \/ 2 * AlnumCount(input.body) < TrimLength(input.body)
        /\ TextLength(input.body) = 0 => parsedData.isScanned
        /\ (input.numPages = 3 /\ TrimLength(input.body) = 80) => parsedData.isScanned
\* enough text for the pages, but mostly not alphanumeric
C9_Witness ==
    /\ PdfParsed /\ input.numPages > 0
    /\ 5 * TrimLength(input.body) >= input.numPages * 1000
    /\ 2 * AlnumCount(input.body) < TrimLength(input.body)
    /\ parsedData.isScanned

\* C10: with a page count of 0, or a trimmed length of 0, the detector
\* returns true
C10_ZeroIsScanned ==
    (PdfParsed /\ (input.numPages = 0 \/ TrimLength(input.body) = 0))
        => parsedData.isScanned

\* ------------------------------------------------------ parser selection
HasMarker(S) == \E k \in 1..Len(input.body) : input.body[k].text \in S
\* the family a loop belongs to: the lenient and columnar tiers are the
\* fallback of the generic parser
Family(stage) == IF stage \in {"strict", "lenient", "columnar"} THEN "generic" ELSE stage

\* C11: the parser that runs on a text is fixed by the markers in the text,
\* NatWest before Nationwide before Santander before Monzo, the generic
\* parser exactly when there is no marker; one family runs per text
C11_ParserPriority ==
    (input.kind = "pdf" /\ scan.stage \notin {"idle", "classify", "done"}) =>
        /\ Family(scan.stage) = "natwest" <=> HasMarker(NatWestMarkerText)
        /\ Family(scan.stage) = "nationwide" <=>
                HasMarker(NationwideMarkerText) /\ ~HasMarker(NatWestMarkerText)
        /\ Family(scan.stage) = "santander" <=>
                /\ HasMarker(SantanderMarkerText)
                /\ ~HasMarker(NatWestMarkerText) /\ ~HasMarker(NationwideMarkerText)
        /\ Family(scan.stage) = "monzo" <=>
                /\ HasMarker(MonzoMarkerText) /\ ~HasMarker(SantanderMarkerText)
                /\ ~HasMarker(NatWestMarkerText) /\ ~HasMarker(NationwideMarkerText)
        /\ Family(scan.stage) = "generic" <=>
                /\ ~HasMarker(MonzoMarkerText) /\ ~HasMarker(SantanderMarkerText)
                /\ ~HasMarker(NatWestMarkerText) /\ ~HasMarker(NationwideMarkerText)
\* a text with the markers of NatWest and of Nationwide, read by the NatWest parser
C11_Witness ==
    /\ input.kind = "pdf"
    /\ HasMarker(NatWestMarkerText) /\ HasMarker(NationwideMarkerText)
    /\ scan.stage = "natwest" /\ scan.i > 0

\* ------------------------------------------------- the generic strict tier
\* 01/12/2024 TESCO STORES 45.57 120.00
TescoLine == Ln("slash", "plain", <<4557, 12000>>)
EmittedAt(k) == {n \in TxIndex : scan.tx[n].anchor = k}

\* C12: the strict tier turns the line "01/12/2024 TESCO STORES 45.57 120.00"
\* into the debit of 45.57 with balance 120.00, dated 01/12/2024 and
\* described by the words between the date and the amount
C12_StrictTescoLine ==
    (Finished /\ input.kind = "pdf" /\ Parser = "strict") =>
        \A k \in 0..(Len(input.body) - 1) :
            At(input.body, k) = TescoLine =>
                \E n \in EmittedAt(k) :
                    scan.tx[n] = Txn(<<"01/12/2024">>, <<"plain">>, 4557, Some(12000), "debit", k)

\* ------------------------------------------------- claims about the CSV rows
\* Posting Date,Details,Debit,Credit,Running Balance
\* 01/01/2024,Coffee Shop,4.50,,95.50
PostingRow ==
    ("Posting Date" :> D("01/01/2024")) @@ ("Details" :> D("Coffee Shop"))
        @@ ("Debit" :> N(450, "4.50")) @@ ("Credit" :> EmptyCell)
        @@ ("Running Balance" :> N(9550, "95.50"))
\* C16: the row 01/01/2024, Coffee Shop, 4.50, , 95.50 under the header
\* Posting Date, Details, Debit, Credit, Running Balance is not dropped: it
\* gives the debit of 4.50 with balance 95.50
C16_PostingDateRow ==
    (Finished /\ input.kind = "csv") =>
        \A k \in 0..(Len(input.body) - 1) :
            At(input.body, k) = PostingRow =>
                \E n \in EmittedAt(k) :
                    scan.tx[n] = Txn(<<"01/01/2024">>, <<"Coffee Shop">>, 450, Some(9550), "debit", k)

\* the cells of a row under one of the keys that carry a value
ValueCells(row, keys) == {row[key] : key \in {x \in keys \cap DOMAIN row : row[x].k # "empty"}}
DebitCells(row) == ValueCells(row, {"debit", "Debit"})
CreditCells(row) == ValueCells(row, {"credit", "Credit"})
AmountCells(row) == ValueCells(row, {"amount", "Amount"})
\* C17: a transaction of a row whose debit cell has a value is a debit of
\* that value; else, if its credit cell has a value, a credit of that value;
\* the amount column gives the amount only when both cells are without value
C17_DebitCreditPreferred ==
    input.kind = "csv" =>
        \A n \in TxIndex :
            LET row == At(input.body, scan.tx[n].anchor)
                t == scan.tx[n]
            IN  /\ DebitCells(row) # {} =>
                        t.type = "debit" /\ \E c \in DebitCells(row) : t.amount = c.v
                /\ (DebitCells(row) = {} /\ CreditCells(row) # {}) =>
                        t.type = "credit" /\ \E c \in CreditCells(row) : t.amount = c.v
                /\ (DebitCells(row) = {} /\ CreditCells(row) = {} /\ AmountCells(row) # {}) =>
                        \E c \in AmountCells(row) : t.amount = Abs(c.v)
\* a row with the three columns whose debit cell gave the transaction, and a
\* row whose empty debit and credit cells left it to the amount column
C17_Witness ==
    /\ input.kind = "csv"
    /\ \E n \in TxIndex :
          LET row == At(input.body, scan.tx[n].anchor)
          IN  /\ AmountCells(row) # {} /\ DebitCells(row) # {}
              /\ scan.tx[n].amount = 450 /\ scan.tx[n].type = "debit"
    /\ \E n \in TxIndex :
          LET row == At(input.body, scan.tx[n].anchor)
          IN  /\ {"debit", "credit", "amount"} \subseteq DOMAIN row
              /\ DebitCells(row) = {} /\ CreditCells(row) = {}
              /\ scan.tx[n].amount = 700

\* ------------------------------------------- claims about the amount columns
InOut(moneyIn, moneyOut) == {[moneyIn |-> moneyIn, moneyOut |-> moneyOut]}
\* the money in and the money out that the running parser reads for the
\* transaction that starts at line k; empty when the row does not have the
\* three-number layout
MoneyColumns(k) ==
    LET lines == input.body
        natwest == AggNums(lines, k, ScanTo(lines, k + 1, NatWestContStop))
        nationwide == NationwideNumbers(At(lines, k))
        santander == AggNums(lines, k, ScanTo(lines, k + 1, SantanderContStop))
        lenient == AbsNums(At(lines, k))
        columnar == ColumnarWalk(lines, k, [j |-> k + 2, description |-> <<>>,
                                            moneyIn |-> 0, moneyOut |-> 0, balance |-> 0])
    IN  CASE scan.stage = "natwest" ->
                IF Len(natwest) = 3 THEN InOut(natwest[1], natwest[2]) ELSE {}
          [] scan.stage = "nationwide" ->
                IF Len(nationwide) = 3 THEN InOut(nationwide[2], nationwide[1]) ELSE {}
          [] scan.stage = "santander" ->
                IF Len(santander) = 3 THEN InOut(santander[1], santander[2]) ELSE {}
          [] scan.stage = "lenient" ->
                IF Len(lenient) >= 3 THEN InOut(lenient[1], lenient[2]) ELSE {}
          [] scan.stage = "columnar" -> InOut(columnar.moneyIn, columnar.moneyOut)
          [] OTHER -> {}
\* C18: a transaction read from money in, money out and balance is a credit
\* of the money in when the money in is not zero, whether or not the money
\* out is zero too, and a debit of the money out when only the money out is
\* not zero; in the NatWest, Nationwide, Santander, lenient and columnar parsers
C18_MoneyInWins ==
    \A n \in TxIndex :
        scan.tx[n].type # "brought_forward" =>
            \A c \in MoneyColumns(scan.tx[n].anchor) :
                /\ c.moneyIn # 0 =>
                        scan.tx[n].type = "credit" /\ scan.tx[n].amount = c.moneyIn
                /\ (c.moneyIn = 0 /\ c.moneyOut # 0) =>
                        scan.tx[n].type = "debit" /\ scan.tx[n].amount = c.moneyOut
\* a NatWest statement read so far into a credit from a row with both
\* columns filled and a debit from a row with the withdrawn column only
C18_Witness ==
    /\ scan.stage = "natwest"
    /\ \E n \in TxIndex : \E c \in MoneyColumns(scan.tx[n].anchor) :
          /\ c.moneyIn # 0 /\ c.moneyOut # 0
          /\ scan.tx[n].type = "credit" /\ scan.tx[n].amount = c.moneyIn
    /\ \E n \in TxIndex : \E c \in MoneyColumns(scan.tx[n].anchor) :
          /\ c.moneyIn = 0 /\ c.moneyOut # 0
          /\ scan.tx[n].type = "debit" /\ scan.tx[n].amount = c.moneyOut

\* -------------------------------------------- claims about the lenient tier
\* C19: in the inline form of the lenient tier a row with one number is a
\* balance only and gives no transaction; a row with two numbers gives its
\* first number as the amount and its second as the balance, a debit unless
\* a keyword says otherwise; a row with three numbers or more gives money in,
\* money out and balance
C19_LenientLayouts ==
    scan.stage = "lenient" =>
        \A n \in TxIndex :
            LET line == At(input.body, scan.tx[n].anchor)
                nums == AbsNums(line)
                t == scan.tx[n]
            IN  /\ Len(nums) # 1
                /\ Len(nums) = 2 =>
                        /\ t.amount = nums[1] /\ t.balance = Some(nums[2])
                        /\ line.text = "plain" => t.type = "debit"
                /\ Len(nums) >= 3 =>
                        /\ t.amount \in {nums[1], nums[2]} /\ t.balance = Some(nums[3])
                        /\ t.type = IF t.amount = nums[1] THEN "credit" ELSE "debit"

\* ------------------------------------------- claims about the statement year
\* the year of the statement that the running parser reads: the year of its
\* header pattern, 2024 in the sample headers, or the default
HeaderYear ==
    LET YearText == CASE scan.stage = "natwest" -> NatWestYearText
                      [] scan.stage = "nationwide" -> NationwideYearText
                      [] scan.stage = "santander" -> SantanderYearText
                      [] OTHER -> {}
    IN  IF HasMarker(YearText) THEN "2024" ELSE "2025"
\* the day and month that the running parser reads from a dated line
DayToken(l) ==
    CASE scan.stage = "natwest" -> NatWestDay(l)
      [] scan.stage = "nationwide" -> NationwideDay(l)
      [] OTHER -> "16 Sep"
\* C20: in the NatWest, Nationwide and Santander parsers every transaction
\* other than an opening balance is dated by the day and month of its line,
\* or of the dated line above it, followed by the one year of the statement:
\* the year of the header pattern, or 2025 when the text has no such header
C20_OneYearPerParse ==
    scan.stage \in {"natwest", "nationwide", "santander"} =>
        \A n \in TxIndex :
            scan.tx[n].type # "brought_forward" =>
                LET t == scan.tx[n]
                    line == At(input.body, t.anchor)
                IN  /\ Len(t.date) = 2
                    /\ t.date[2] = HeaderYear
                    /\ IF line.date # "none" THEN t.date[1] = DayToken(line)
                       ELSE \E k \in 0..(t.anchor - 1) :
                               /\ At(input.body, k).date # "none"
                               /\ t.date[1] = DayToken(At(input.body, k))
\* a NatWest statement with the period header, read so far into two
\* transactions dated in the year of the header
C20_Witness ==
    /\ scan.stage = "natwest" /\ HasMarker(NatWestYearText)
    /\ \E n \in TxIndex : \E k \in TxIndex :
          /\ n < k
          /\ scan.tx[n].type # "brought_forward" /\ scan.tx[k].type # "brought_forward"
          /\ scan.tx[n].date[2] = "2024" /\ scan.tx[k].date[2] = "2024"

\* ------------------------------------------------- progress of the scans
\* the loops of the parsers, and the order in which a parse goes through them
LoopStages ==
    {"natwest", "nationwide", "santander", "monzo", "strict", "lenient", "columnar", "csv"}
StageRank(stage) ==
    CASE stage \in {"idle", "classify"} -> 0
      [] stage \in {"natwest", "nationwide", "santander", "monzo", "strict", "csv"} -> 1
      [] stage \in {"lenient", "columnar"} -> 2
      [] OTHER -> 3

Digits == {"0", "1", "2", "3", "4", "5", "6", "7", "8", "9"}
Letters ==
    {"A", "B", "C", "D", "E", "F", "G", "H", "I", "J", "K", "L", "M", "N", "O", "P", "Q",
     "R", "S", "T", "U", "V", "W", "X", "Y", "Z", "a", "b", "c", "d", "e", "f", "g", "h",
     "i", "j", "k", "l", "m", "n", "o", "p", "q", "r", "s", "t", "u", "v", "w", "x", "y",
     "z"}
\* \w of the regular expressions
isWordChar(c) == c \in Digits \cup Letters \cup {"_"}
\* \s, as far as the sample texts have it
Spaces == {" "}
\* the character at 1-based position i, "" outside the text
Ch(s, i) == IF i >= 1 /\ i <= Len(s) THEN s[i] ELSE ""
\* \b between the characters at i - 1 and at i
Boundary(s, i) == isWordChar(Ch(s, i - 1)) # isWordChar(Ch(s, i))
RECURSIVE SkipSpaces(_, _)
SkipSpaces(s, i) == IF Ch(s, i) \in Spaces THEN SkipSpaces(s, i + 1) ELSE i
RECURSIVE SkipDigits(_, _)
SkipDigits(s, i) == IF Ch(s, i) \in Digits THEN SkipDigits(s, i + 1) ELSE i
AllDigits(s, a, b) == \A k \in a..b : Ch(s, k) \in Digits

\* the class [E...] of the first replacement: E and the characters of a
\* mis-encoded euro sign
garbledCurrency == {"E", "euro"}
currencySymbols == {"pound", "$"}

\* cleaned.replace(/([pound$])\s*[E...]/g, '$1'), scanning from position i
RECURSIVE replaceCurrency(_, _)
replaceCurrency(s, i) ==
    IF i > Len(s) THEN <<>>
    ELSE IF s[i] \in currencySymbols /\ Ch(s, SkipSpaces(s, i + 1)) \in garbledCurrency
         THEN <<s[i]>> \o replaceCurrency(s, SkipSpaces(s, i + 1) + 1)
         ELSE <<s[i]>> \o replaceCurrency(s, i + 1)

\* cleaned.replace(/\b[O](\d)/g, '0$1')
RECURSIVE replaceZeroBefore(_, _)
replaceZeroBefore(s, i) ==
    IF i > Len(s) THEN <<>>
    ELSE IF s[i] = "O" /\ Boundary(s, i) /\ Ch(s, i + 1) \in Digits
         THEN <<"0", s[i + 1]>> \o replaceZeroBefore(s, i + 2)
         ELSE <<s[i]>> \o replaceZeroBefore(s, i + 1)

\* cleaned.replace(/(\d)[O]\b/g, '$10')
RECURSIVE replaceZeroAfter(_, _)
replaceZeroAfter(s, i) ==
    IF i > Len(s) THEN <<>>
    ELSE IF s[i] \in Digits /\ Ch(s, i + 1) = "O" /\ Boundary(s, i + 2)
         THEN <<s[i], "0">> \o replaceZeroAfter(s, i + 2)
         ELSE <<s[i]>> \o replaceZeroAfter(s, i + 1)

\* cleaned.replace(/\b[Il](\d)/g, '1$1')
RECURSIVE replaceOneBefore(_, _)
replaceOneBefore(s, i) ==
    IF i > Len(s) THEN <<>>
    ELSE IF s[i] \in {"I", "l"} /\ Boundary(s, i) /\ Ch(s, i + 1) \in Digits
         THEN <<"1", s[i + 1]>> \o replaceOneBefore(s, i + 2)
         ELSE <<s[i]>> \o replaceOneBefore(s, i + 1)

\* cleaned.replace(/(\d)[Il]\b/g, '$11')
RECURSIVE replaceOneAfter(_, _)
replaceOneAfter(s, i) ==
    IF i > Len(s) THEN <<>>
    ELSE IF s[i] \in Digits /\ Ch(s, i + 1) \in {"I", "l"} /\ Boundary(s, i + 2)
         THEN <<s[i], "1">> \o replaceOneAfter(s, i + 2)
         ELSE <<s[i]>> \o replaceOneAfter(s, i + 1)

\* cleaned.replace(/\b[O](\d{1})\/(\d{2})\/(\d{4})/g, '0$1/$2/$3')
RECURSIVE replaceDate(_, _)
replaceDate(s, i) ==
    IF i > Len(s) THEN <<>>
    ELSE IF /\ s[i] = "O" /\ Boundary(s, i) /\ Ch(s, i + 1) \in Digits
            /\ Ch(s, i + 2) = "/" /\ AllDigits(s, i + 3, i + 4)
            /\ Ch(s, i + 5) = "/" /\ AllDigits(s, i + 6, i + 9)
         THEN <<"0">> \o SubSeq(s, i + 1, i + 9) \o replaceDate(s, i + 10)
         ELSE <<s[i]>> \o replaceDate(s, i + 1)

\* cleaned.replace(/(\d+\.)([SB])(\d)/g, ...): S becomes 5, B becomes 8
RECURSIVE replaceDecimal(_, _)
replaceDecimal(s, i) ==
    IF i > Len(s) THEN <<>>
    ELSE IF /\ s[i] \in Digits /\ Ch(s, SkipDigits(s, i)) = "."
            /\ Ch(s, SkipDigits(s, i) + 1) \in {"S", "B"}
            /\ Ch(s, SkipDigits(s, i) + 2) \in Digits
         THEN SubSeq(s, i, SkipDigits(s, i))
              \o <<IF s[SkipDigits(s, i) + 1] = "S" THEN "5" ELSE "8", s[SkipDigits(s, i) + 2]>>
              \o replaceDecimal(s, SkipDigits(s, i) + 3)
         ELSE <<s[i]>> \o replaceDecimal(s, i + 1)

\* the replacements of cleanOCRText in the order of the code
CleanStages ==
    <<"currency", "zeroBefore", "zeroAfter", "oneBefore", "oneAfter", "date", "decimal">>
CleanStage(stage, s) ==
    CASE stage = "currency" -> replaceCurrency(s, 1)
      [] stage = "zeroBefore" -> replaceZeroBefore(s, 1)
      [] stage = "zeroAfter" -> replaceZeroAfter(s, 1)
      [] stage = "oneBefore" -> replaceOneBefore(s, 1)
      [] stage = "oneAfter" -> replaceOneAfter(s, 1)
      [] stage = "date" -> replaceDate(s, 1)
      [] stage = "decimal" -> replaceDecimal(s, 1)
cleanOCRText(text) ==
    replaceDecimal(replaceDate(replaceOneAfter(replaceOneBefore(
        replaceZeroAfter(replaceZeroBefore(replaceCurrency(text, 1), 1), 1), 1), 1), 1), 1)

\* --------------------------------------------- OCRService.extractTransactions
\* the position of the first occurrence of sub in s from position i on, 0 if none
RECURSIVE IndexFrom(_, _, _)
IndexFrom(s, sub, i) ==
    IF i + Len(sub) - 1 > Len(s) THEN 0
    ELSE IF SubSeq(s, i, i + Len(sub) - 1) = sub THEN i
    ELSE IndexFrom(s, sub, i + 1)
indexOf(s, sub) == IndexFrom(s, sub, 1)
\* line.trim()
RECURSIVE trim(_)
trim(s) ==
    IF s = <<>> THEN s
    ELSE IF Head(s) \in Spaces THEN trim(Tail(s))
    ELSE IF s[Len(s)] \in Spaces THEN trim(SubSeq(s, 1, Len(s) - 1))
    ELSE s
\* replace(/\s+/g, ' ')
RECURSIVE collapseSpaces(_)
collapseSpaces(s) ==
    IF s = <<>> THEN s
    ELSE IF Head(s) \in Spaces
         THEN <<" ">> \o collapseSpaces(SubSeq(s, SkipSpaces(s, 1), Len(s)))
         ELSE <<Head(s)>> \o collapseSpaces(Tail(s))
\* String.substring on 0-based positions: clamped, and swapped when start > end
substring(s, start, end) ==
    LET a == IF start < 0 THEN 0 ELSE IF start > Len(s) THEN Len(s) ELSE start
        b == IF end < 0 THEN 0 ELSE IF end > Len(s) THEN Len(s) ELSE end
    IN  IF a <= b THEN SubSeq(s, a + 1, b) ELSE SubSeq(s, b + 1, a)

DateSeparators == {"/", "-"}
\* /\b(\d{1,2}[\/\-]\d{1,2}[\/\-]\d{2,4})\b/ at position i: the position
\* after the match, 0 if there is none
dayFirstDateEnd(s, i) ==
    LET ends == {e \in (i + 6)..(i + 10) :
                    \E a \in 1..2 : \E b \in 1..2 : \E c \in 2..4 :
                        /\ e = i + a + 1 + b + 1 + c
                        /\ AllDigits(s, i, i + a - 1)
                        /\ Ch(s, i + a) \in DateSeparators
                        /\ AllDigits(s, i + a + 1, i + a + b)
                        /\ Ch(s, i + a + b + 1) \in DateSeparators
                        /\ AllDigits(s, i + a + b + 2, e - 1)
                        /\ Boundary(s, e)}
    IN  IF Boundary(s, i) /\ ends # {} THEN CHOOSE e \in ends : \A x \in ends : x <= e ELSE 0
\* /\b(\d{4}[\/\-]\d{1,2}[\/\-]\d{1,2})\b/ at position i
yearFirstDateEnd(s, i) ==
    LET ends == {e \in (i + 8)..(i + 10) :
                    \E b \in 1..2 : \E c \in 1..2 :
                        /\ e = i + 4 + 1 + b + 1 + c
                        /\ AllDigits(s, i, i + 3)
                        /\ Ch(s, i + 4) \in DateSeparators
                        /\ AllDigits(s, i + 5, i + 4 + b)
                        /\ Ch(s, i + 5 + b) \in DateSeparators
                        /\ AllDigits(s, i + 6 + b, e - 1)
                        /\ Boundary(s, e)}
    IN  IF Boundary(s, i) /\ ends # {} THEN CHOOSE e \in ends : \A x \in ends : x <= e ELSE 0
\* trimmedLine.match over the date patterns in their order: the matched text,
\* <<>> if no pattern matches. The third pattern needs a month name, which
\* the sample texts do not have.
ocrDateMatch(s) ==
    LET first == {i \in 1..Len(s) : dayFirstDateEnd(s, i) > 0}
        second == {i \in 1..Len(s) : yearFirstDateEnd(s, i) > 0}
        i1 == CHOOSE i \in first : \A x \in first : i <= x
        i2 == CHOOSE i \in second : \A x \in second : i <= x
    IN  IF first # {} THEN SubSeq(s, i1, dayFirstDateEnd(s, i1) - 1)
        ELSE IF second # {} THEN SubSeq(s, i2, yearFirstDateEnd(s, i2) - 1)
        ELSE <<>>

DigitValue(c) ==
    CASE c = "0" -> 0 [] c = "1" -> 1 [] c = "2" -> 2 [] c = "3" -> 3 [] c = "4" -> 4
      [] c = "5" -> 5 [] c = "6" -> 6 [] c = "7" -> 7 [] c = "8" -> 8 [] c = "9" -> 9
\* parseFloat of a matched amount, in pence: the digits before the point,
\* the commas left out, then the two decimals if the match has them
RECURSIVE pence(_, _)
pence(s, acc) ==
    IF s = <<>> THEN acc * 100
    ELSE IF Head(s) \in Digits THEN pence(Tail(s), acc * 10 + DigitValue(Head(s)))
    ELSE IF Head(s) = "." THEN acc * 100 + DigitValue(s[2]) * 10 + DigitValue(s[3])
    ELSE pence(Tail(s), acc)
\* the position after the optional currency prefix (?:pound|GBP)? at i
afterPrefix(s, i) ==
    IF Ch(s, i) = "pound" THEN i + 1
    ELSE IF Ch(s, i) = "G" /\ Ch(s, i + 1) = "B" /\ Ch(s, i + 2) = "P" THEN i + 3
    ELSE i
\* the position after \d{1,3} at i, which is at a digit
afterLeadingDigits(s, i) ==
    IF Ch(s, i + 1) \notin Digits THEN i + 1
    ELSE IF Ch(s, i + 2) \notin Digits THEN i + 2 ELSE i + 3
\* the position after (?:,\d{3})* at i
RECURSIVE afterThousands(_, _)
afterThousands(s, i) ==
    IF Ch(s, i) = "," /\ AllDigits(s, i + 1, i + 3) THEN afterThousands(s, i + 4) ELSE i
\* the position after (?:\.\d{2})? at i
afterDecimals(s, i) == IF Ch(s, i) = "." /\ AllDigits(s, i + 1, i + 2) THEN i + 3 ELSE i
\* the position after a match of
\* /(?:pound|GBP)?\s*(\d{1,3}(?:,\d{3})*(?:\.\d{2})?)/ at i, 0 if there is none
amountEnd(s, i) ==
    LET d == SkipSpaces(s, afterPrefix(s, i))
    IN  IF Ch(s, d) \in Digits
        THEN afterDecimals(s, afterThousands(s, afterLeadingDigits(s, d)))
        ELSE 0
\* trimmedLine.match(/.../g): the matched texts from position i on
RECURSIVE amountMatchesFrom(_, _)
amountMatchesFrom(s, i) ==
    IF i > Len(s) THEN <<>>
    ELSE IF amountEnd(s, i) > 0
         THEN <<SubSeq(s, i, amountEnd(s, i) - 1)>> \o amountMatchesFrom(s, amountEnd(s, i))
         ELSE amountMatchesFrom(s, i + 1)
\* replace(/[pound GBP,\s]/g, '') on a matched amount
RECURSIVE stripAmount(_)
stripAmount(s) ==
    IF s = <<>> THEN s
    ELSE IF Head(s) \in {"pound", "G", "B", "P", ","} \cup Spaces THEN stripAmount(Tail(s))
    ELSE <<Head(s)>> \o stripAmount(Tail(s))
ocrAmount(match) == pence(stripAmount(match), 0)

\* /\bdebit\b/i or a minus sign anywhere in the line
hasDebit(s) ==
    \/ \E k \in 1..Len(s) : s[k] = "-"
    \/ \E k \in 1..Len(s) :
          /\ Ch(s, k) \in {"d", "D"} /\ Ch(s, k + 1) \in {"e", "E"}
          /\ Ch(s, k + 2) \in {"b", "B"} /\ Ch(s, k + 3) \in {"i", "I"}
          /\ Ch(s, k + 4) \in {"t", "T"} /\ Boundary(s, k) /\ Boundary(s, k + 5)

\* the body of the loop of extractTransactions on one line: the transaction
\* pushed, Undefined if the line is skipped
ocrLine(line) ==
    LET trimmedLine == trim(line)
        dateMatch == ocrDateMatch(trimmedLine)
        amountMatches == amountMatchesFrom(trimmedLine, 1)
        dateIndex == indexOf(trimmedLine, dateMatch) - 1
        firstAmountIndex == indexOf(trimmedLine, amountMatches[1]) - 1
        words == trim(collapseSpaces(trim(
                    substring(trimmedLine, dateIndex + Len(dateMatch), firstAmountIndex))))
        description == IF words = <<>> THEN <<"Transaction">> ELSE words
        amount == ocrAmount(amountMatches[1])
        parsedBalance == ocrAmount(amountMatches[Len(amountMatches)])
        balance == IF Len(amountMatches) > 1 /\ parsedBalance # amount
                   THEN Some(parsedBalance) ELSE Undefined
    IN  IF Len(trimmedLine) < 10 THEN Undefined
        ELSE IF dateMatch = <<>> THEN Undefined
        ELSE IF amountMatches = <<>> THEN Undefined
        ELSE IF amount = 0 THEN Undefined
        ELSE Some(Txn(dateMatch, description, amount, balance,
                      IF hasDebit(trimmedLine) THEN "debit" ELSE "credit", 0))

\* ------------------------------------------------------ recognised texts
\* O1/12/2024 TESCO STORES E45.S7
TescoRaw ==
    <<"O", "1", "/", "1", "2", "/", "2", "0", "2", "4", " ", "T", "E", "S", "C", "O", " ",
      "S", "T", "O", "R", "E", "S", " ", "E", "4", "5", ".", "S", "7">>
\* 01/12/2024 TESCO STORES (pound)45.57
TescoRepaired ==
    <<"0", "1", "/", "1", "2", "/", "2", "0", "2", "4", " ", "T", "E", "S", "C", "O", " ",
      "S", "T", "O", "R", "E", "S", " ", "pound", "4", "5", ".", "5", "7">>
\* 4.S5.S7
OverlappingDecimals ==
    <<"4", ".", "S", "5", ".", "S", "7">>
\* 02/12/2024 (pound) ESSO 45.00
EssoLine ==
    <<"0", "2", "/", "1", "2", "/", "2", "0", "2", "4", " ", "pound", " ", "E", "S", "S",
      "O", " ", "4", "5", ".", "0", "0">>
\* 03/12/2024 CARD DEBIT (pound)1,2O4.B0 (pound) 95.50
DebitLine ==
    <<"0", "3", "/", "1", "2", "/", "2", "0", "2", "4", " ", "C", "A", "R", "D", " ", "D",
      "E", "B", "I", "T", " ", "pound", "1", ",", "2", "O", "4", ".", "B", "0", " ",
      "pound", " ", "9", "5", ".", "5", "0">>
\* 2024-12-O4 BILL Il.S0-
YearFirstLine ==
    <<"2", "0", "2", "4", "-", "1", "2", "-", "O", "4", " ", "B", "I", "L", "L", " ", "I",
      "l", ".", "S", "0", "-">>
OcrSamples == {TescoRaw, TescoRepaired, OverlappingDecimals, EssoLine, DebitLine, YearFirstLine}
\* the characters of the short texts, and their greatest length
OcrAlphabet == {"O", "I", "S", "E", "4", ".", "pound", " "}
MaxText == 4

\* ------------------------------------------- OCRService.parseOCRText, by step
\* input.body holds the recognised text as its one line; scan.cur is the text
\* as cleaned so far, scan.i the number of replacements applied
OcrStart(text) == [stage |-> "currency", i |-> 0, tx |-> <<>>, cur |-> text, sec |-> FALSE]
OcrInit ==
    /\ ServiceIdle
    /\ \E text \in OcrSamples \cup SeqUpTo(OcrAlphabet, MaxText) :
          /\ input = File("ocr", <<text>>, TRUE, 1, "csv")
          /\ scan = OcrStart(text)
    /\ pc = "idle"
    /\ parsedData = NoData
    /\ response = NoResponse
    /\ trace = <<>>

\* one replacement of cleanOCRText, then the next stage
CleanAdvance(next) ==
    /\ scan' = [scan EXCEPT !.cur = CleanStage(scan.stage, @), !.i = @ + 1, !.stage = next]
    /\ UNCHANGED <<backend, input, pc, parsedData, response, trace>>
CleanCurrency == scan.stage = "currency" /\ CleanAdvance("zeroBefore")
CleanZeroBefore == scan.stage = "zeroBefore" /\ CleanAdvance("zeroAfter")
CleanZeroAfter == scan.stage = "zeroAfter" /\ CleanAdvance("oneBefore")
CleanOneBefore == scan.stage = "oneBefore" /\ CleanAdvance("oneAfter")
CleanOneAfter == scan.stage = "oneAfter" /\ CleanAdvance("date")
CleanDate == scan.stage = "date" /\ CleanAdvance("decimal")
CleanDecimal == scan.stage = "decimal" /\ CleanAdvance("extract")
\* extractTransactions on the cleaned text
ExtractOCR ==
    /\ scan.stage = "extract"
    /\ \E t \in {ocrLine(scan.cur)} :
          scan' = [scan EXCEPT !.tx = IF t = Undefined THEN @ ELSE push(@, t[1]),
                               !.stage = "done"]
    /\ UNCHANGED <<backend, input, pc, parsedData, response, trace>>

OcrNext ==
    \/ CleanCurrency \/ CleanZeroBefore \/ CleanZeroAfter \/ CleanOneBefore
    \/ CleanOneAfter \/ CleanDate \/ CleanDecimal \/ ExtractOCR

SpecOCR == OcrInit /\ [][OcrNext]_vars

\* ------------------------------------------------ claims about the OCR repair
RawText == input.body[1]
Repaired == input.kind = "ocr" /\ scan.stage \in {"extract", "done"}

\* C13: the repair turns "O1/12/2024 TESCO STORES E45.S7" into
\* "01/12/2024 TESCO STORES (pound)45.57", and the repaired text parses to a
\* transaction of amount 45.57
C13_TescoRepair ==
    (Repaired /\ RawText = TescoRaw) =>
        /\ scan.cur = TescoRepaired
        /\ scan.stage = "done" => (Len(scan.tx) = 1 /\ scan.tx[1].amount = 4557)

\* C14: a second pass of the repair over a repaired text changes nothing
C14_RepairIdempotent == Repaired => cleanOCRText(scan.cur) = scan.cur

\* the words of a text: the maximal runs of characters other than spaces
RECURSIVE WordsOf(_, _)
WordsOf(s, word) ==
    IF s = <<>> THEN (IF word = <<>> THEN {} ELSE {word})
    ELSE IF Head(s) \in Spaces
         THEN (IF word = <<>> THEN {} ELSE {word}) \cup WordsOf(Tail(s), <<>>)
         ELSE WordsOf(Tail(s), Append(word, Head(s)))
HasDigit(word) == \E k \in 1..Len(word) : word[k] \in Digits
\* C15: every word of the recognised text that has no digit is a word of the
\* repaired text, unchanged
C15_ProseUntouched ==
    Repaired => \A w \in WordsOf(RawText, <<>>) :
                    ~HasDigit(w) => w \in WordsOf(scan.cur, <<>>)

\* --------------------------------- the OCR path against the PDF path
\* the date 01/12/2024, which a line of the PDF path carries as "slash"
SlashDate == <<"0", "1", "/", "1", "2", "/", "2", "0", "2", "4">>
StartsWithSlashDate(s) ==
    Len(s) >= Len(SlashDate) /\ SubSeq(s, 1, Len(SlashDate)) = SlashDate
\* a text that starts with that date as the PDF path reads it: the date, the
\* keyword of its words, and the amounts that follow the date in pence
pdfLine(s) ==
    LET matches == amountMatchesFrom(s, Len(SlashDate) + 1)
    IN  Ln("slash", IF hasDebit(s) THEN "ge_debit" ELSE "plain",
           [k \in 1..Len(matches) |-> ocrAmount(matches[k])])
\* what a list of transactions says about money
Records(tx) ==
    [k \in 1..Len(tx) |-> [amount |-> tx[k].amount, balance |-> tx[k].balance,
                           type |-> tx[k].type]]
\* C22: the transactions parseOCRText gets from the repaired text are the
\* transactions PDFParser.extractTransactions gets from that same text
C22_SameHeuristics ==
    (Repaired /\ scan.stage = "done" /\ StartsWithSlashDate(scan.cur)) =>
        Records(scan.tx) = Records(extractTransactions(<<pdfLine(scan.cur)>>))

\* ============================================================ the user store
\* the plans and their page limits (getPricingTiers)
freePages == 50
starterPages == 500
professionalPages == 2000
enterprisePages == 10000
PaidPlans == {"starter", "professional", "enterprise"}
getPagesLimit(plan) ==
    CASE plan = "free" -> freePages
      [] plan = "starter" -> starterPages
      [] plan = "professional" -> professionalPages
      [] plan = "enterprise" -> enterprisePages

\* the limits a new user gets
dailyPagesLimit == 3
monthlyPagesLimit == 50
\* the user createUser builds. The PostgreSQL row has the same columns under
\* snake_case names and no pagesUsed and pagesLimit: these two stay 0 in a
\* row and are filled in by normalizeUser when the row is read
NewUser(store, email, today) ==
    [email |-> email, plan |-> "free",
     pagesUsedToday |-> 0, dailyPagesLimit |-> dailyPagesLimit, lastResetDate |-> today,
     pagesUsedMonthly |-> 0, monthlyPagesLimit |-> monthlyPagesLimit,
     pagesUsed |-> 0, pagesLimit |-> IF store = "memory" THEN dailyPagesLimit ELSE 0,
     subscriptionStatus |-> "none", subscriptionId |-> 0]
normalizeUser(dbUser) ==
    [dbUser EXCEPT
        !.pagesUsed = IF dbUser.plan = "free" THEN dbUser.pagesUsedToday
                      ELSE dbUser.pagesUsedMonthly,
        !.pagesLimit = IF dbUser.plan = "free" THEN dbUser.dailyPagesLimit
                       ELSE dbUser.monthlyPagesLimit]

Exists(d, userId) == userId \in 1..Len(d.users)
\* MemoryStore.createUser, PostgresStore.createUser: the new user's id is its
\* place in the store
createUser(d, email) == [d EXCEPT !.users = Append(@, NewUser(d.store, email, d.today))]
\* MemoryStore.checkAndResetDaily; in PostgreSQL the UPDATE that getUserById,
\* getUserByEmail and canConvert run first
checkAndResetDaily(store, user, today) ==
    IF user.plan # "free" \/ user.lastResetDate = today THEN user
    ELSE [user EXCEPT !.pagesUsedToday = 0, !.lastResetDate = today,
                      !.pagesUsed = IF store = "memory" THEN 0 ELSE @]
ResetDaily(d, userId) ==
    IF Exists(d, userId)
    THEN [d EXCEPT !.users[userId] = checkAndResetDaily(d.store, @, d.today)]
    ELSE d
\* what getUserById returns once it has run the daily reset
getUserById(d, userId) ==
    IF d.store = "memory" THEN d.users[userId] ELSE normalizeUser(d.users[userId])
\* getUserByEmail: the id of the first user with that email, 0 if there is none
getUserByEmail(d, email) ==
    IF \E k \in 1..Len(d.users) : d.users[k].email = email
    THEN CHOOSE k \in 1..Len(d.users) :
            /\ d.users[k].email = email
            /\ \A n \in 1..(k - 1) : d.users[n].email # email
    ELSE 0
\* updateUser: the fields of updates replace those of the user
updateUser(d, userId, updates) ==
    IF Exists(d, userId)
    THEN [d EXCEPT !.users[userId] =
            [f \in DOMAIN @ |-> IF f \in DOMAIN updates THEN updates[f] ELSE @[f]]]
    ELSE d
\* canConvert, on a store whose daily reset has run
canConvert(d, userId, pagesNeeded) ==
    /\ Exists(d, userId)
    /\ IF d.users[userId].plan = "free"
       THEN d.users[userId].pagesUsedToday + pagesNeeded <= d.users[userId].dailyPagesLimit
       ELSE d.users[userId].pagesUsedMonthly + pagesNeeded
                <= d.users[userId].monthlyPagesLimit
\* logConversion: the log is pushed, then the counter of the user's plan goes
\* up (the memory store runs the daily reset first and keeps pagesUsed too)
logConversion(d, userId, fileName, pagesConverted) ==
    LET logged == [d EXCEPT !.conversionLogs =
                        Append(@, [userId |-> userId, fileName |-> fileName,
                                   pagesConverted |-> pagesConverted])]
        reset == IF d.store = "memory" THEN ResetDaily(logged, userId) ELSE logged
    IN  IF ~Exists(d, userId) THEN logged
        ELSE IF reset.users[userId].plan = "free"
        THEN [reset EXCEPT !.users[userId].pagesUsedToday = @ + pagesConverted,
                           !.users[userId].pagesUsed =
                                IF d.store = "memory" THEN @ + pagesConverted ELSE @]
        ELSE [reset EXCEPT !.users[userId].pagesUsedMonthly = @ + pagesConverted,
                           !.users[userId].pagesUsed =
                                IF d.store = "memory" THEN @ + pagesConverted ELSE @]
\* resetUsage
resetUsage(d, userId) ==
    IF ~Exists(d, userId) THEN d
    ELSE IF d.users[userId].plan = "free"
    THEN [d EXCEPT !.users[userId].pagesUsedToday = 0,
                   !.users[userId].lastResetDate =
                        IF d.store = "postgres" THEN d.today ELSE @,
                   !.users[userId].pagesUsed = 0]
    ELSE [d EXCEPT !.users[userId].pagesUsedMonthly = 0, !.users[userId].pagesUsed = 0]

\* ------------------------------------------------------ the Stripe webhook
\* the stripe-signature header: absent, one constructEvent rejects, one it accepts
Signatures == {"none", "forged", "valid"}
\* a verification that lets every signature through
constructEventUnverified(sig) == TRUE
\* stripe.webhooks.constructEvent: it returns the event if the signature is
\* the one of the payload under the webhook secret, and throws if it is not
constructEvent(sig) == sig = "valid"

\* an event: its type, the userId and plan of its metadata (0 and "" when
\* missing), the subscription it is about (the subscription of user n is n),
\* the status of that subscription and whether its period has ended
Event(type, userId, plan, subscription, status, periodEnded) ==
    [type |-> type, userId |-> userId, plan |-> plan, subscription |-> subscription,
     status |-> status, periodEnded |-> periodEnded]
\* the ids a request can name: those of the users, and one that is never a
\* user's, there being at most one new user per request
NoSuchUser == MaxRequests + 1
Known(d) == (1..Len(d.users)) \cup {NoSuchUser}
Events(d) ==
    {Event("checkout.session.completed", u, p, u, "active", FALSE) :
        u \in Known(d), p \in PaidPlans}
    \cup {Event("checkout.session.completed", 0, "", 0, "active", FALSE)}
    \cup {Event("customer.subscription.updated", u, "", u, "past_due", FALSE) :
        u \in 1..Len(d.users)}
    \cup {Event("customer.subscription.updated", u, "professional", u, "active", FALSE) :
        u \in 1..Len(d.users)}
    \cup {Event("customer.subscription.deleted", u, "", u, "canceled", e) :
        u \in 1..Len(d.users), e \in BOOLEAN}
    \cup {Event(t, 0, "", u, "active", FALSE) :
        t \in {"invoice.payment_succeeded", "invoice.payment_failed"},
        u \in 1..Len(d.users)}
    \cup {Event("customer.created", 0, "", 0, "active", FALSE)}

handleCheckoutComplete(d, session) ==
    IF session.userId = 0 \/ session.plan = "" THEN d
    ELSE IF ~Exists(d, session.userId) THEN d
    ELSE IF d.store = "memory"
    THEN updateUser(ResetDaily(d, session.userId), session.userId,
            [subscriptionId |-> session.subscription, plan |-> session.plan,
             pagesLimit |-> getPagesLimit(session.plan), subscriptionStatus |-> "active"])
    ELSE updateUser(ResetDaily(d, session.userId), session.userId,
            [subscriptionId |-> session.subscription, plan |-> session.plan,
             monthlyPagesLimit |-> getPagesLimit(session.plan), pagesUsedMonthly |-> 0,
             subscriptionStatus |-> "active"])
handleSubscriptionUpdate(d, subscription) ==
    LET status == [subscriptionId |-> subscription.subscription,
                   subscriptionStatus |-> subscription.status]
        plan == [plan |-> subscription.plan]
        limit == IF d.store = "memory"
                 THEN [pagesLimit |-> getPagesLimit(subscription.plan)]
                 ELSE [monthlyPagesLimit |-> getPagesLimit(subscription.plan)]
    IN  IF subscription.userId = 0 THEN d
        ELSE IF ~Exists(d, subscription.userId) THEN d
        ELSE updateUser(ResetDaily(d, subscription.userId), subscription.userId,
                IF subscription.plan = "" THEN status ELSE status @@ plan @@ limit)
handleSubscriptionDeleted(d, subscription) ==
    IF subscription.userId = 0 THEN d
    ELSE IF ~Exists(d, subscription.userId) THEN d
    ELSE IF d.store = "memory"
    THEN updateUser(ResetDaily(d, subscription.userId), subscription.userId,
            [plan |-> "free", pagesLimit |-> getPagesLimit("free"),
             subscriptionStatus |-> "canceled", subscriptionId |-> 0])
    ELSE IF ~subscription.periodEnded
    THEN updateUser(ResetDaily(d, subscription.userId), subscription.userId,
            [subscriptionStatus |-> "canceled"])
    ELSE updateUser(ResetDaily(d, subscription.userId), subscription.userId,
            [plan |-> "free", monthlyPagesLimit |-> getPagesLimit("free"),
             pagesUsedMonthly |-> 0, subscriptionStatus |-> "canceled"])
\* allUsers.find(u => u.subscriptionId === subscriptionId): 0 if none
findBySubscription(d, subscriptionId) ==
    IF subscriptionId # 0 /\ \E k \in 1..Len(d.users) : d.users[k].subscriptionId = subscriptionId
    THEN CHOOSE k \in 1..Len(d.users) : d.users[k].subscriptionId = subscriptionId
    ELSE 0
handlePaymentSucceeded(d, invoice) ==
    resetUsage(d, findBySubscription(d, invoice.subscription))
handlePaymentFailed(d, invoice) ==
    updateUser(d, findBySubscription(d, invoice.subscription),
               [subscriptionStatus |-> "past_due"])

\* the switch on event.type: the handler it calls, "" for the default branch
HandlerOf(type) ==
    CASE type = "checkout.session.completed" -> "handleCheckoutComplete"
      [] type \in {"customer.subscription.created", "customer.subscription.updated"} ->
            "handleSubscriptionUpdate"
      [] type = "customer.subscription.deleted" -> "handleSubscriptionDeleted"
      [] type = "invoice.payment_succeeded" -> "handlePaymentSucceeded"
      [] type = "invoice.payment_failed" -> "handlePaymentFailed"
      [] OTHER -> ""
Handle(d, event) ==
    CASE HandlerOf(event.type) = "handleCheckoutComplete" -> handleCheckoutComplete(d, event)
      [] HandlerOf(event.type) = "handleSubscriptionUpdate" -> handleSubscriptionUpdate(d, event)
      [] HandlerOf(event.type) = "handleSubscriptionDeleted" -> handleSubscriptionDeleted(d, event)
      [] HandlerOf(event.type) = "handlePaymentSucceeded" -> handlePaymentSucceeded(d, event)
      [] HandlerOf(event.type) = "handlePaymentFailed" -> handlePaymentFailed(d, event)
      [] OTHER -> d
\* the event the route holds while constructEvent has not returned one
NoEvent == Event("", 0, "", 0, "", FALSE)
\* router.post('/stripe'): the store it leaves, the status and the error of
\* its response, the event it got from constructEvent and the handler that ran
stripeWebhook(d, sig, event) ==
    IF sig = "none"
    THEN [db |-> d, status |-> 400, error |-> "No signature provided", handler |-> "",
          event |-> NoEvent]
    ELSE IF ~constructEvent(sig)
    THEN [db |-> d, status |-> 400, error |-> "Webhook signature verification failed",
          handler |-> "", event |-> NoEvent]
    ELSE [db |-> Handle(d, event), status |-> 200, error |-> "",
          handler |-> HandlerOf(event.type), event |-> event]

\* ------------------------------------------------------- the upload route
\* the page counts countPagesMiddleware leaves in req.pagesInFile: 0 for a
\* request without a file (the field stays undefined), then a small file and
\* one with more pages than a free user has in a day
PageCounts == {0, 2, dailyPagesLimit + 1}
\* the bodies handleUpload sends for a request with a file of n pages (0: no file)
Body(status, success, error) == [status |-> status, success |-> success, error |-> error]
UploadResponses(n) ==
    IF n = 0 THEN {Body(400, "absent", "No file uploaded")}
    ELSE {Body(200, "true", ""),
          Body(400, "absent", "Unsupported file type"),
          Body(400, "absent", "No transactions found in the file"),
          Body(500, "absent", "Failed to process file")}
\* a wrapper of res.json that does not look at the status
shouldLogAnyStatus(statusCode, body) == body.success # "false"
\* the test of the res.json that logConversionMiddleware installs
shouldLog(statusCode, body) ==
    statusCode >= 200 /\ statusCode < 300 /\ body.success # "false"
pagesNeeded(req) == IF req.pagesInFile = 0 THEN 1 ELSE req.pagesInFile

\* checkPageLimitMiddleware on request req: the store it leaves and the
\* request, passed on to the conversion (pc "converting") or answered
checkPageLimit(d, req) ==
    IF req.userId = 0
    THEN [db |-> createUser(d, "anonymous"),
          req |-> [req EXCEPT !.userId = Len(d.users) + 1, !.pc = "converting"]]
    ELSE IF ~Exists(d, req.userId)
    THEN [db |-> d, req |-> [req EXCEPT !.pc = "done", !.status = 404,
                                        !.error = "User not found"]]
    ELSE IF ~canConvert(ResetDaily(d, req.userId), req.userId, pagesNeeded(req))
    THEN [db |-> ResetDaily(d, req.userId),
          req |-> [req EXCEPT !.pc = "done", !.status = 403,
                     !.error = IF /\ d.store = "postgres"
                                  /\ d.users[req.userId].plan # "free"
                                  /\ d.users[req.userId].subscriptionStatus # "active"
                               THEN "Subscription inactive" ELSE "Page limit exceeded"]]
    ELSE [db |-> ResetDaily(d, req.userId), req |-> [req EXCEPT !.pc = "converting"]]

\* the res.json of logConversionMiddleware called with body for the request
\* in slot r, whose file name stands for the slot. The memory store logs
\* before the response goes out; the PostgreSQL middleware starts
\* db.logConversion and sends the response without waiting for it
json(d, r, req, body) ==
    LET sent == [req EXCEPT !.status = body.status, !.success = body.success,
                            !.error = body.error]
    IN  IF shouldLog(body.status, body) /\ req.userId # 0
        THEN IF d.store = "memory"
             THEN [db |-> logConversion(d, req.userId, r, pagesNeeded(req)),
                   req |-> [sent EXCEPT !.pc = "done"]]
             ELSE [db |-> d, req |-> [sent EXCEPT !.pc = "logging"]]
        ELSE [db |-> d, req |-> [sent EXCEPT !.pc = "done"]]

\* ----------------------------------------------------- the register route
Emails == {"ann@example.com", "bob@example.com"}
\* router.post('/register') up to await bcrypt.hash
registerCheck(d, req, email) ==
    IF email = ""
    THEN [db |-> d, req |-> [req EXCEPT !.pc = "done", !.status = 400,
                                        !.error = "Email and password are required"]]
    ELSE IF getUserByEmail(d, email) # 0
    THEN [db |-> ResetDaily(d, getUserByEmail(d, email)),
          req |-> [req EXCEPT !.pc = "done", !.status = 400, !.email = email,
                              !.error = "User already exists"]]
    ELSE [db |-> d, req |-> [req EXCEPT !.pc = "hashing", !.email = email]]
\* router.post('/register') from db.createUser on: the users table of
\* PostgreSQL has UNIQUE (email), so its INSERT throws for an email that is
\* there, and the catch block answers 500
registerCreate(d, req) ==
    IF d.store = "postgres" /\ getUserByEmail(d, req.email) # 0
    THEN [db |-> d, req |-> [req EXCEPT !.pc = "done", !.status = 500,
                                        !.error = "Failed to register user"]]
    ELSE [db |-> createUser(d, req.email),
          req |-> [req EXCEPT !.pc = "done", !.status = 200, !.success = "true",
                              !.userId = Len(d.users) + 1]]

\* --------------------------------------------- the requests, interleaved
Slots == 1..MaxRequests
\* the slot the next request takes
Free(r) == requests[r].route = "none" /\ \A q \in 1..(r - 1) : requests[q].route # "none"
ParsersIdle ==
    /\ input = File("none", <<>>, TRUE, 0, "csv")
    /\ scan = ScanIdle
    /\ pc = "idle"
    /\ parsedData = NoData
    /\ response = NoResponse
    /\ trace = <<>>
parsers == <<input, scan, pc, parsedData, response, trace>>

StoreInit ==
    /\ ParsersIdle
    /\ \E store \in {"memory", "postgres"} : db = EmptyStore(store)
    /\ requests = [r \in Slots |-> NoRequest]
    /\ ocrService = NoScheduler

\* upload.single and countPagesMiddleware: a request arrives with or without
\* an x-user-id header (0: without) and its pages are counted
CountPages(r) ==
    /\ Free(r)
    /\ \E userId \in {0} \cup Known(db) : \E n \in PageCounts :
          requests' = [requests EXCEPT ![r] =
                          [NoRequest EXCEPT !.route = "upload", !.pc = "counted",
                                            !.userId = userId, !.pagesInFile = n]]
    /\ UNCHANGED <<parsers, db, ocrService>>
\* checkPageLimitMiddleware, and on next() logConversionMiddleware and
\* handleUpload up to its await
CheckPageLimit(r) ==
    /\ requests[r].route = "upload" /\ requests[r].pc = "counted"
    /\ \E out \in {checkPageLimit(db, requests[r])} :
          db' = out.db /\ requests' = [requests EXCEPT ![r] = out.req]
    /\ UNCHANGED <<parsers, ocrService>>
\* the rest of handleUpload: it sends one of its bodies through res.json
HandleUpload(r) ==
    /\ requests[r].route = "upload" /\ requests[r].pc = "converting"
    /\ \E body \in UploadResponses(requests[r].pagesInFile) :
          \E out \in {json(db, r, requests[r], body)} :
              db' = out.db /\ requests' = [requests EXCEPT ![r] = out.req]
    /\ UNCHANGED <<parsers, ocrService>>
\* the transaction of PostgresStore.logConversion commits
LogConversion(r) ==
    /\ requests[r].route = "upload" /\ requests[r].pc = "logging"
    /\ db' = logConversion(db, requests[r].userId, r, pagesNeeded(requests[r]))
    /\ requests' = [requests EXCEPT ![r].pc = "done"]
    /\ UNCHANGED <<parsers, ocrService>>
RegisterCheck(r) ==
    /\ Free(r)
    /\ \E email \in Emails \cup {""} :
          \E out \in {registerCheck(db, [NoRequest EXCEPT !.route = "register"], email)} :
              db' = out.db /\ requests' = [requests EXCEPT ![r] = out.req]
    /\ UNCHANGED <<parsers, ocrService>>
RegisterCreate(r) ==
    /\ requests[r].route = "register" /\ requests[r].pc = "hashing"
    /\ \E out \in {registerCreate(db, requests[r])} :
          db' = out.db /\ requests' = [requests EXCEPT ![r] = out.req]
    /\ UNCHANGED <<parsers, ocrService>>
\* router.post('/stripe'), whole: none of its awaits waits for anything
\* outside the process in the memory store
StripeWebhook(r) ==
    /\ Free(r)
    /\ \E sig \in Signatures : \E event \in Events(db) :
          \E out \in {stripeWebhook(db, sig, event)} :
              /\ db' = out.db
              /\ requests' = [requests EXCEPT ![r] =
                    [NoRequest EXCEPT !.route = "stripe", !.pc = "done", !.sig = sig,
                                      !.type = out.event.type,
                                      !.userId = out.event.userId,
                                      !.plan = out.event.plan, !.status = out.status,
                                      !.error = out.error, !.handler = out.handler]]
    /\ UNCHANGED <<parsers, ocrService>>
\* midnight passes
NextDay ==
    /\ db.today < MaxDays
    /\ db' = [db EXCEPT !.today = @ + 1]
    /\ UNCHANGED <<parsers, requests, ocrService>>

StoreNext ==
    \/ \E r \in Slots : CountPages(r)
    \/ \E r \in Slots : CheckPageLimit(r)
    \/ \E r \in Slots : HandleUpload(r)
    \/ \E r \in Slots : LogConversion(r)
    \/ \E r \in Slots : RegisterCheck(r)
    \/ \E r \in Slots : RegisterCreate(r)
    \/ \E r \in Slots : StripeWebhook(r)
    \/ NextDay

SpecStore == StoreInit /\ [][StoreNext]_vars

\* ------------------------------------------------ claims about the store
UserIds == 1..Len(db.users)
\* the counter and the limit of the user's current plan
Counter(user) == IF user.plan = "free" THEN user.pagesUsedToday ELSE user.pagesUsedMonthly
Limit(user) == IF user.plan = "free" THEN user.dailyPagesLimit ELSE user.monthlyPagesLimit

\* C23: whatever has been done to the store, every user read from it has
\* pagesUsed equal to the counter of its current plan and pagesLimit equal
\* to the limit of its current plan
C23_CompatibilityView ==
    \A u \in UserIds :
        /\ getUserById(db, u).pagesUsed = Counter(getUserById(db, u))
        /\ getUserById(db, u).pagesLimit = Limit(getUserById(db, u))

\* request r is passed on by checkPageLimitMiddleware in this step
PassedOn(r) ==
    /\ requests[r].route = "upload" /\ requests[r].pc = "counted"
    /\ requests'[r].pc = "converting"
\* C25: a request is passed on to the conversion only if its user, the one
\* named by the request or the one created for it, can convert the pages of
\* its file: used pages plus pages needed within the limit of the plan
C25_PassedOnlyWithinLimit ==
    [][\A r \in Slots :
          PassedOn(r) => canConvert(db', requests'[r].userId, pagesNeeded(requests'[r]))]_vars

\* C26: as long as no webhook has changed a plan, a registered user, whose
\* every upload carried its id and went through the limit check, never has
\* more pages counted in the day than its daily limit, however its uploads
\* interleave
C26_NeverBeyondLimit ==
    (\A r \in Slots : requests[r].route # "stripe") =>
        \A u \in UserIds :
            db.users[u].email \in Emails =>
                db.users[u].pagesUsedToday <= db.users[u].dailyPagesLimit

\* the entries of the conversion log for the file of request r
LogsOf(d, r) == {k \in 1..Len(d.conversionLogs) : d.conversionLogs[k].fileName = r}
Succeeded(req) == req.status >= 200 /\ req.status < 300 /\ req.success # "false"
Uploads == {r \in Slots : requests[r].route = "upload"}
\* request r gets its response in this step
Answered(r) == requests[r].route = "upload" /\ requests[r].status = 0 /\ requests'[r].status # 0
\* this step adds the log entry of request r: the user's counter is the
\* counter it had (in the memory store after the daily reset, which its
\* logConversion runs first) plus the pages of the entry
LoggedNow(r) ==
    /\ Len(db'.conversionLogs) = Len(db.conversionLogs) + 1
    /\ db'.conversionLogs[Len(db'.conversionLogs)] =
            [userId |-> requests[r].userId, fileName |-> r,
             pagesConverted |-> pagesNeeded(requests[r])]
    /\ Counter(db'.users[requests[r].userId]) =
            pagesNeeded(requests[r])
            + IF db.store = "memory"
              THEN Counter(checkAndResetDaily(db.store, db.users[requests[r].userId], db.today))
              ELSE Counter(db.users[requests[r].userId])
Handled(r) == requests[r].route = "none" /\ requests'[r].route = "stripe"
\* C28: once a checkout.session.completed webhook for plan P and an existing
\* user has been processed, canConvert lets that user convert up to
\* getPagesLimit(P) pages in the period and no more, and the user's
\* subscription status is active
C28_CheckoutLimit ==
    [][\A r \in Slots :
          (/\ Handled(r)
           /\ requests'[r].handler = "handleCheckoutComplete"
           /\ requests'[r].plan \in PaidPlans
           /\ Exists(db, requests'[r].userId)) =>
              LET u == requests'[r].userId
                  left == getPagesLimit(requests'[r].plan) - Counter(db'.users[u])
              IN  /\ canConvert(db', u, left)
                  /\ ~canConvert(db', u, left + 1)
                  /\ db'.users[u].subscriptionStatus = "active"]_vars

\* C29: a webhook request without a stripe-signature header, or with one
\* that fails verification, is answered 400, runs no handler and leaves
\* the store as it was
C29_UnverifiedRejected ==
    [][\A r \in Slots :
          (Handled(r) /\ requests'[r].sig # "valid") =>
              /\ requests'[r].status = 400
              /\ requests'[r].handler = ""
              /\ db' = db]_vars
\* a user is on a paid plan by a webhook that was verified, and a webhook
\* with a forged signature and one with none have been answered 400
C29_Witness ==
    /\ \E u \in UserIds : db.users[u].plan \in PaidPlans
    /\ \E r \in Slots : /\ requests[r].route = "stripe" /\ requests[r].sig = "valid"
                        /\ requests[r].handler = "handleCheckoutComplete"
    /\ \E r \in Slots : /\ requests[r].route = "stripe"
                        /\ requests[r].sig \in {"forged", "none"}
                        /\ requests[r].status = 400

\* C30: no two users have the same registered email, however the register
\* requests interleave
C30_OneUserPerEmail ==
    \A u \in UserIds : \A v \in UserIds :
        (u # v /\ db.users[u].email \in Emails) => db.users[u].email # db.users[v].email
\* ==== OCRService: the scheduler and the recognitions (part_010)
\* the most workers initialize is asked for
MaxWorkers == 2
Recognitions == 1..MaxCalls
\* where a recognition is: not asked for, waiting in the scheduler's queue, on
\* a worker of the scheduler, on a worker of its own, returned, thrown
CallStates == {"idle", "queued", "pool", "own", "done", "failed"}
\* Tesseract.recognize(image, langs, options): the library's one-shot call,
\* which creates a worker for this image and terminates it afterwards
recognize(call) == "own"
\* the recognitions that occupy a worker
Running(service) == {c \in Recognitions : service.calls[c] \in {"pool", "own"}}

PoolInit ==
    /\ ParsersIdle
    /\ db = EmptyStore("memory")
    /\ requests = [r \in Slots |-> NoRequest]
    /\ ocrService = NoScheduler

\* initialize(numWorkers) up to its first createWorker: the scheduler is
\* created empty (called on a service that has no scheduler)
Initialize(numWorkers) ==
    /\ ~ocrService.scheduler.created
    /\ ocrService' = [ocrService EXCEPT
                         !.scheduler = [created |-> TRUE, workers |-> 0,
                                        numWorkers |-> numWorkers]]
    /\ UNCHANGED <<parsers, db, requests>>
\* one round of the loop of initialize: createWorker, scheduler.addWorker
AddWorker ==
    /\ ocrService.scheduler.created
    /\ ocrService.scheduler.workers < ocrService.scheduler.numWorkers
    /\ ocrService' = [ocrService EXCEPT !.scheduler.workers = @ + 1]
    /\ UNCHANGED <<parsers, db, requests>>
\* terminate(), after initialize has returned: the scheduler's workers are
\* terminated and the scheduler is null again
Terminate ==
    /\ ocrService.scheduler.created
    /\ ocrService.scheduler.workers = ocrService.scheduler.numWorkers
    /\ ocrService' = [ocrService EXCEPT !.scheduler = NoScheduler.scheduler]
    /\ UNCHANGED <<parsers, db, requests>>
\* extractTextFromPDF up to its await: Tesseract.recognize is called with the
\* buffer; this.scheduler is not read
ExtractTextFromPDF(c) ==
    /\ ocrService.calls[c] = "idle"
    /\ ocrService' = [ocrService EXCEPT !.calls[c] = recognize(c)]
    /\ UNCHANGED <<parsers, db, requests>>
\* the recognition resolves: text and confidence are returned
ExtractReturns(c) ==
    /\ ocrService.calls[c] \in {"pool", "own"}
    /\ ocrService' = [ocrService EXCEPT !.calls[c] = "done"]
    /\ UNCHANGED <<parsers, db, requests>>
\* the recognition rejects: 'Failed to perform OCR on PDF' is thrown
ExtractThrows(c) ==
    /\ ocrService.calls[c] \in {"pool", "own"}
    /\ ocrService' = [ocrService EXCEPT !.calls[c] = "failed"]
    /\ UNCHANGED <<parsers, db, requests>>

PoolNext ==
    \/ \E numWorkers \in 1..MaxWorkers : Initialize(numWorkers)
    \/ AddWorker
    \/ Terminate
    \/ \E c \in Recognitions : ExtractTextFromPDF(c)
    \/ \E c \in Recognitions : ExtractReturns(c)
    \/ \E c \in Recognitions : ExtractThrows(c)

SpecPool == PoolInit /\ [][PoolNext]_vars

\* C21: every recognition is a job of the scheduler's pool: the recognitions
\* running at one time are at most the workers the scheduler was given, and
\* none runs on a worker that is not the scheduler's
C21_RecognitionsOnPool ==
    /\ Cardinality(Running(ocrService)) <= ocrService.scheduler.workers
    /\ \A c \in Recognitions : ocrService.calls[c] # "own"
====
